---- MODULE Spec2Model ----
(***************************************************************************)
(* Model of the Windows file-manager core of Case_12: the single-level     *)
(* directory reader (navigation.list_directory), the count-only            *)
(* aggregators (analysis.py), the recursive metadata scan                  *)
(* (utill_rec.collect_windows_metadata_recursive) and the recursive        *)
(* searches (search.py), all running over an explicit file-system tree.    *)
(***************************************************************************)
EXTENDS Integers, Sequences, FiniteSets, TLC

VARIABLES fs, op, arg, res

vars == <<fs, op, arg, res>>

(***************************************************************************)
(* Bounds of the model.                                                    *)
(***************************************************************************)
\* deepest chain of nested directories below the root
MaxChain == 11
\* number of symbolic links the operating system resolves in one path
\* before it refuses the path (ELOOP / reparse-point limit)
MaxLinkHops == 2

(***************************************************************************)
(* Program constants.                                                      *)
(***************************************************************************)
DefaultMaxDepth == 10
\* 1024 * 1024 bytes, and the half of it the model states thresholds in
MegaByte == 1024 * 1024
HalfMegaByte == MegaByte \div 2

(***************************************************************************)
(* Strings are sequences of one-character strings.                         *)
(***************************************************************************)
UpperLetters == <<"A","B","C","D","E","F","G","H","I","J","K","L","M",
                  "N","O","P","Q","R","S","T","U","V","W","X","Y","Z">>
LowerLetters == <<"a","b","c","d","e","f","g","h","i","j","k","l","m",
                  "n","o","p","q","r","s","t","u","v","w","x","y","z">>

OtherCode == ("*" :> 42) @@ ("+" :> 43) @@ ("." :> 46) @@ ("0" :> 48) @@
             ("1" :> 49) @@ ("2" :> 50) @@ ("?" :> 63) @@ ("[" :> 91) @@
             ("\\" :> 92) @@ ("]" :> 93) @@ ("_" :> 95) @@ ("^" :> 94) @@
             ("$" :> 36) @@ (" " :> 32) @@ ("(" :> 40) @@ (")" :> 41) @@
             ("3" :> 51) @@ ("6" :> 54) @@ ("8" :> 56)

\* the characters of the model
Chars == {UpperLetters[i] : i \in 1..26} \cup {LowerLetters[i] : i \in 1..26}
         \cup DOMAIN OtherCode

\* code point of every character (ord)
CodeTable ==
    [c \in Chars |->
        IF \E i \in 1..26 : UpperLetters[i] = c
        THEN 64 + (CHOOSE i \in 1..26 : UpperLetters[i] = c)
        ELSE IF \E i \in 1..26 : LowerLetters[i] = c
        THEN 96 + (CHOOSE i \in 1..26 : LowerLetters[i] = c)
        ELSE OtherCode[c]]

Code(c) == CodeTable[c]

\* str.lower on every character
LowerTable ==
    [c \in Chars |->
        IF \E i \in 1..26 : UpperLetters[i] = c
        THEN LowerLetters[CHOOSE i \in 1..26 : UpperLetters[i] = c]
        ELSE c]

LowerChar(c) == LowerTable[c]

\* str.lower
Lower(s) == [i \in 1..Len(s) |-> LowerChar(s[i])]

\* s < t for Python strings (lexicographic by code point)
RECURSIVE StrLessFrom(_, _, _)
StrLessFrom(s, t, k) ==
    IF k > Len(t) THEN FALSE
    ELSE IF k > Len(s) THEN TRUE
    ELSE IF s[k] = t[k] THEN StrLessFrom(s, t, k + 1)
    ELSE Code(s[k]) < Code(t[k])

StrLess(s, t) == StrLessFrom(s, t, 1)

\* str.startswith
StartsWith(s, p) ==
    /\ Len(p) <= Len(s)
    /\ \A i \in 1..Len(p) : s[i] = p[i]

\* os.path.splitext(name)[1] for a name without separators: the part from
\* the last dot on, unless only dots precede that dot
SplitExt(s) ==
    LET dots == {i \in 1..Len(s) : s[i] = "."} IN
    IF dots = {} THEN <<>>
    ELSE LET d == CHOOSE i \in dots : \A j \in dots : j <= i IN
         IF \E i \in 1..(d - 1) : s[i] # "."
         THEN SubSeq(s, d, Len(s))
         ELSE <<>>

(***************************************************************************)
(* The file system.  fs maps a node id to its record; a path is the        *)
(* sequence of directory entries (node ids) leading from the root to the   *)
(* entry it names, which stands for the string os.path.join builds.        *)
(***************************************************************************)
\* the ids of the nodes the trees are built from (os.listdir reports the
\* entries of a directory in ascending id order); chain directories take
\* the ids after chain
Ids == [none |-> -1, root |-> 0, b |-> 1, a |-> 2, c |-> 3, bin |-> 4,
        data1 |-> 5, dataX |-> 6, data12 |-> 7, data |-> 8, link |-> 9,
        exe |-> 10, chain |-> 10, deep |-> 30]

NoNode == Ids.none
Root == Ids.root

\* the node a directory entry resolves to when symbolic links are followed
Deref(n) ==
    IF n = NoNode THEN NoNode
    ELSE IF fs[n].kind = "link" THEN fs[n].target
    ELSE n

Last(p) == p[Len(p)]

\* number of symbolic links on a path
LinkHops(p) == Cardinality({i \in 1..Len(p) : fs[p[i]].kind = "link"})

\* the path can be resolved by the operating system
Resolves(p) ==
    /\ LinkHops(p) <= MaxLinkHops
    /\ Deref(Last(p)) # NoNode

\* os.path.islink
IsLink(p) == fs[Last(p)].kind = "link"

\* os.stat succeeds on the path
StatOk(p) == Resolves(p) /\ fs[Deref(Last(p))].statOk

\* os.path.isdir
IsDir(p) == StatOk(p) /\ fs[Deref(Last(p))].kind = "dir"

\* os.path.isfile
IsFile(p) == StatOk(p) /\ fs[Deref(Last(p))].kind = "file"

\* the elements of a finite set of integers in ascending order
RECURSIVE Ascending(_)
Ascending(S) ==
    IF S = {} THEN <<>>
    ELSE LET m == CHOOSE x \in S : \A y \in S : x <= y
         IN <<m>> \o Ascending(S \ {m})

\* os.listdir: the error it raises ("none" when it succeeds) and the
\* entries in the order the operating system reports them
OsListdir(p) ==
    IF ~Resolves(p) THEN [err |-> "oserror", names |-> <<>>]
    ELSE LET d == Deref(Last(p)) IN
         IF fs[d].kind # "dir" THEN [err |-> "oserror", names |-> <<>>]
         ELSE IF fs[d].listErr # "none"
              THEN [err |-> fs[d].listErr, names |-> <<>>]
         ELSE [err |-> "none",
               names |-> Ascending({m \in DOMAIN fs : fs[m].parent = d})]

\* os.path.getsize: ok is FALSE when it raises OSError
GetSize(p) ==
    IF StatOk(p) /\ fs[Deref(Last(p))].sizeOk
    THEN [ok |-> TRUE, size |-> fs[Deref(Last(p))].size]
    ELSE [ok |-> FALSE, size |-> 0]


\* utils.is_hidden_windows_file: the hidden bit of the attributes, or the
\* leading-dot rule when the attributes cannot be read
IsHiddenWindowsFile(p) ==
    IF StatOk(p)
    THEN (fs[Deref(Last(p))].attrs \div 2) % 2 = 1
    ELSE StartsWith(fs[Last(p)].name, <<".">>)

(***************************************************************************)
(* utils.safe_windows_listdir and navigation.list_directory                *)
(***************************************************************************)
\* utils.safe_windows_listdir: every OSError of os.listdir is caught and
\* turned into an empty list; raised tells whether an exception leaves
SafeWindowsListdir(p) ==
    LET l == OsListdir(p) IN
    CASE l.err = "none"     -> [raised |-> FALSE, names |-> l.names]
      [] l.err = "perm"     -> [raised |-> FALSE, names |-> <<>>]
      [] l.err = "notfound" -> [raised |-> FALSE, names |-> <<>>]
      [] OTHER              -> [raised |-> FALSE, names |-> <<>>]

\* sorted(entries, key=str.lower): stable insertion by lowercased name
RECURSIVE SortedByLowerName(_)
SortedByLowerName(ids) ==
    IF ids = <<>> THEN <<>>
    ELSE LET x == Head(ids)
             rest == SortedByLowerName(Tail(ids))
             k == Cardinality({i \in 1..Len(rest) :
                      StrLess(Lower(fs[rest[i]].name), Lower(fs[x].name))})
         IN SubSeq(rest, 1, k) \o <<x>> \o SubSeq(rest, k + 1, Len(rest))

\* one entry of navigation.list_directory
DirEntry(p, n) ==
    LET full == Append(p, n)
        isDir == IsDir(full)
    IN [id       |-> n,
        name     |-> fs[n].name,
        type     |-> IF isDir THEN "dir" ELSE "file",
        size     |-> IF StatOk(full) /\ ~isDir
                     THEN fs[Deref(n)].size ELSE 0,
        modified |-> IF StatOk(full) THEN "mtime" ELSE "N/A",
        hidden   |-> IsHiddenWindowsFile(full)]

\* navigation.list_directory
ListDirectory(p) ==
    LET r == SafeWindowsListdir(p) IN
    IF r.raised THEN [ok |-> FALSE, items |-> <<>>]
    ELSE LET names == SortedByLowerName(r.names)
         IN [ok |-> TRUE,
             items |-> [i \in 1..Len(names) |-> DirEntry(p, names[i])]]

(***************************************************************************)
(* analysis.py: the count-only aggregators                                 *)
(***************************************************************************)
RECURSIVE CountFiles(_)
RECURSIVE CountFilesItems(_, _, _)

\* analysis.count_files
CountFiles(p) ==
    LET r == ListDirectory(p) IN
    IF ~r.ok THEN [ok |-> FALSE, value |-> 0]
    ELSE [ok |-> TRUE, value |-> CountFilesItems(p, r.items, 1)]

\* CountFilesItems leaving the loop at a subdirectory that adds nothing
CountFilesItemsStoppingAtEmptyDir(p, items, i) ==
    IF i > Len(items) THEN 0
    ELSE LET it == items[i]
             full == Append(p, it.id)
         IN IF IsLink(full) THEN CountFilesItems(p, items, i + 1)
            ELSE IF it.type = "file"
            THEN 1 + CountFilesItems(p, items, i + 1)
            ELSE LET sub == CountFiles(full)
                 IN IF sub.ok /\ sub.value > 0
                    THEN sub.value + CountFilesItems(p, items, i + 1)
                    ELSE 0

\* the for loop of count_files from item i on
CountFilesItems(p, items, i) ==
    IF i > Len(items) THEN 0
    ELSE LET it == items[i]
             full == Append(p, it.id)
             here == IF IsLink(full) THEN 0
                     ELSE IF it.type = "file" THEN 1
                     ELSE LET sub == CountFiles(full)
                          IN IF sub.ok THEN sub.value ELSE 0
         IN here + CountFilesItems(p, items, i + 1)

RECURSIVE CountBytes(_)
RECURSIVE CountBytesItems(_, _, _)

\* analysis.count_bytes
CountBytes(p) ==
    LET r == ListDirectory(p) IN
    IF ~r.ok THEN [ok |-> FALSE, value |-> 0]
    ELSE [ok |-> TRUE, value |-> CountBytesItems(p, r.items, 1)]

\* the for loop of count_bytes from item i on
CountBytesItems(p, items, i) ==
    IF i > Len(items) THEN 0
    ELSE LET it == items[i]
             full == Append(p, it.id)
             here == IF IsLink(full) THEN 0
                     ELSE IF it.type = "file" THEN it.size
                     ELSE LET sub == CountBytes(full)
                          IN IF sub.ok THEN sub.value ELSE 0
         IN here + CountBytesItems(p, items, i + 1)

\* the empty extension table
NoStats == [k \in {} |-> [count |-> 0, bytes |-> 0]]

\* stats[ext]['count'] += c; stats[ext]['bytes'] += b on a defaultdict
AddStat(stats, ext, c, b) ==
    IF ext \in DOMAIN stats
    THEN [stats EXCEPT ![ext] = [count |-> @.count + c, bytes |-> @.bytes + b]]
    ELSE stats @@ (ext :> [count |-> c, bytes |-> b])

\* folding every entry of table sub into table stats
MergeStats(stats, sub) ==
    [k \in DOMAIN stats \cup DOMAIN sub |->
        [count |-> (IF k \in DOMAIN stats THEN stats[k].count ELSE 0)
                 + (IF k \in DOMAIN sub THEN sub[k].count ELSE 0),
         bytes |-> (IF k \in DOMAIN stats THEN stats[k].bytes ELSE 0)
                 + (IF k \in DOMAIN sub THEN sub[k].bytes ELSE 0)]]

RECURSIVE AnalyzeWindowsFileTypes(_)
RECURSIVE AnalyzeItems(_, _, _, _)

\* analysis.analyze_windows_file_types
AnalyzeWindowsFileTypes(p) ==
    LET r == ListDirectory(p) IN
    IF ~r.ok THEN [ok |-> FALSE, value |-> NoStats]
    ELSE [ok |-> TRUE, value |-> AnalyzeItems(p, r.items, 1, NoStats)]

\* the for loop of analyze_windows_file_types from item i on
AnalyzeItems(p, items, i, stats) ==
    IF i > Len(items) THEN stats
    ELSE LET it == items[i]
             full == Append(p, it.id)
             next == IF IsLink(full) THEN stats
                     ELSE IF it.type = "file"
                     THEN AddStat(stats, Lower(SplitExt(it.name)), 1, it.size)
                     ELSE LET sub == AnalyzeWindowsFileTypes(full)
                          IN IF sub.ok THEN MergeStats(stats, sub.value)
                             ELSE stats
         IN AnalyzeItems(p, items, i + 1, next)

\* bit test attrs & mask for a one-bit mask
HasBit(attrs, mask) == (attrs \div mask) % 2 = 1

\* the counts get_windows_file_attributes_stats starts from, and returns
\* when list_directory reports a failure
ZeroAttributeStats == [hidden |-> 0, system |-> 0, readonly |-> 0]

RECURSIVE GetWindowsFileAttributesStats(_)
RECURSIVE AttributeStatsItems(_, _, _, _)

\* analysis.get_windows_file_attributes_stats: the dictionary it returns
GetWindowsFileAttributesStats(p) ==
    LET r == ListDirectory(p) IN
    IF ~r.ok THEN ZeroAttributeStats
    ELSE AttributeStatsItems(p, r.items, 1, ZeroAttributeStats)

\* the for loop of get_windows_file_attributes_stats from item i on; an
\* entry whose os.stat raises is passed over
AttributeStatsItems(p, items, i, stats) ==
    IF i > Len(items) THEN stats
    ELSE LET it == items[i]
             full == Append(p, it.id)
             next ==
                 IF IsLink(full) THEN stats
                 ELSE IF ~StatOk(full) THEN stats
                 ELSE IF it.type = "file"
                 THEN LET attrs == fs[Deref(it.id)].attrs IN
                      [hidden   |-> stats.hidden
                           + (IF IsHiddenWindowsFile(full) THEN 1 ELSE 0),
                       system   |-> stats.system
                           + (IF HasBit(attrs, 4) THEN 1 ELSE 0),
                       readonly |-> stats.readonly
                           + (IF HasBit(attrs, 1) THEN 1 ELSE 0)]
                 ELSE LET sub == GetWindowsFileAttributesStats(full) IN
                      [hidden   |-> stats.hidden + sub.hidden,
                       system   |-> stats.system + sub.system,
                       readonly |-> stats.readonly + sub.readonly]
         IN AttributeStatsItems(p, items, i + 1, next)


(***************************************************************************)
(* utill_rec.collect_windows_metadata_recursive                            *)
(***************************************************************************)
\* the key of a file without extension in the scan's type table
NoExtension == <<"n","o","_","e","x","t","e","n","s","i","o","n">>

\* the empty type table of a scan node
NoTypes == [k \in {} |-> [count |-> 0, size |-> 0]]

\* result['types'][ext]['count'] += c; result['types'][ext]['size'] += b,
\* creating the entry when the extension is new
AddType(types, ext, c, b) ==
    IF ext \in DOMAIN types
    THEN [types EXCEPT ![ext] = [count |-> @.count + c, size |-> @.size + b]]
    ELSE types @@ (ext :> [count |-> c, size |-> b])

\* folding a child's type table into the parent's
MergeTypes(types, sub) ==
    [k \in DOMAIN types \cup DOMAIN sub |->
        [count |-> (IF k \in DOMAIN types THEN types[k].count ELSE 0)
                 + (IF k \in DOMAIN sub THEN sub[k].count ELSE 0),
         size  |-> (IF k \in DOMAIN types THEN types[k].size ELSE 0)
                 + (IF k \in DOMAIN sub THEN sub[k].size ELSE 0)]]

\* the fresh result dictionary of one directory
NewResult(p, depth) ==
    [path |-> p, depth |-> depth, files |-> 0, dirs |-> 0, size |-> 0,
     types |-> NoTypes,
     attributes |-> [hidden |-> 0, system |-> 0, readonly |-> 0],
     children |-> <<>>]

\* CollectFile without result['size'] += file_size
CollectFileDroppingSize(acc, full, name) ==
    LET g == GetSize(full) IN
    IF ~g.ok THEN acc
    ELSE LET ext0 == SplitExt(name)
             ext == IF ext0 # <<>> THEN Lower(ext0) ELSE NoExtension
             a == fs[Deref(Last(full))].attrs
         IN [acc EXCEPT
               !.types = AddType(@, ext, 1, g.size),
               !.attributes =
                   [hidden   |-> @.hidden + (IF HasBit(a, 2) THEN 1 ELSE 0),
                    system   |-> @.system + (IF HasBit(a, 4) THEN 1 ELSE 0),
                    readonly |-> @.readonly + (IF HasBit(a, 1) THEN 1 ELSE 0)]]

\* the file branch of _collect_recursive after result['files'] += 1
CollectFile(acc, full, name) ==
    LET g == GetSize(full) IN
    IF ~g.ok THEN acc
    ELSE LET ext0 == SplitExt(name)
             ext == IF ext0 # <<>> THEN Lower(ext0) ELSE NoExtension
             a == fs[Deref(Last(full))].attrs
         IN [acc EXCEPT
               !.size = @ + g.size,
               !.types = AddType(@, ext, 1, g.size),
               !.attributes =
                   [hidden   |-> @.hidden + (IF HasBit(a, 2) THEN 1 ELSE 0),
                    system   |-> @.system + (IF HasBit(a, 4) THEN 1 ELSE 0),
                    readonly |-> @.readonly + (IF HasBit(a, 1) THEN 1 ELSE 0)]]

\* FoldChild without result['files'] += child_data['files']
FoldChildDroppingFiles(acc, child) ==
    [acc EXCEPT
       !.children = Append(@, child),
       !.dirs = @ + child.dirs,
       !.size = @ + child.size,
       !.types = MergeTypes(@, child.types),
       !.attributes =
           [hidden   |-> @.hidden + child.attributes.hidden,
            system   |-> @.system + child.attributes.system,
            readonly |-> @.readonly + child.attributes.readonly]]

\* folding the result of a descended child into its parent
FoldChild(acc, child) ==
    [acc EXCEPT
       !.children = Append(@, child),
       !.files = @ + child.files,
       !.dirs = @ + child.dirs,
       !.size = @ + child.size,
       !.types = MergeTypes(@, child.types),
       !.attributes =
           [hidden   |-> @.hidden + child.attributes.hidden,
            system   |-> @.system + child.attributes.system,
            readonly |-> @.readonly + child.attributes.readonly]]

\* EntryClass without the os.path.islink test
EntryClassWithoutLinkTest(full) ==
    IF IsFile(full) THEN "file"
    ELSE IF IsDir(full) THEN "dir"
    ELSE "other"

\* the if / elif chain of the loop body: which branch an entry takes
EntryClass(full) ==
    IF IsLink(full) THEN "link"
    ELSE IF IsFile(full) THEN "file"
    ELSE IF IsDir(full) THEN "dir"
    ELSE "other"

RECURSIVE CollectRecursive(_, _, _, _)
RECURSIVE CollectItems(_, _, _, _, _, _, _)

\* _collect_recursive: isNone tells that None was returned; visited is the
\* shared visited set after the call
CollectRecursive(p, depth, visited, maxDepth) ==
    IF depth > maxDepth \/ p \in visited
    THEN [isNone |-> TRUE, node |-> NewResult(p, depth), visited |-> visited]
    ELSE LET l == OsListdir(p)
             v == visited \cup {p}
         IN IF l.err # "none"
            THEN [isNone |-> FALSE, node |-> NewResult(p, depth),
                  visited |-> v]
            ELSE CollectItems(p, depth, l.names, 1, NewResult(p, depth),
                              v, maxDepth)

\* the for loop of _collect_recursive from entry i on
CollectItems(p, depth, names, i, acc, visited, maxDepth) ==
    IF i > Len(names)
    THEN [isNone |-> FALSE, node |-> acc, visited |-> visited]
    ELSE LET full == Append(p, names[i])
             class == EntryClass(full)
         IN
         IF class = "file"
         THEN CollectItems(p, depth, names, i + 1,
                  CollectFile([acc EXCEPT !.files = @ + 1], full,
                              fs[names[i]].name),
                  visited, maxDepth)
         ELSE IF class = "dir"
         THEN LET a1 == [acc EXCEPT !.dirs = @ + 1] IN
              IF depth < maxDepth
              THEN LET c == CollectRecursive(full, depth + 1, visited,
                                             maxDepth)
                   IN CollectItems(p, depth, names, i + 1,
                          IF c.isNone THEN a1 ELSE FoldChild(a1, c.node),
                          c.visited, maxDepth)
              ELSE CollectItems(p, depth, names, i + 1, a1, visited,
                                maxDepth)
         ELSE CollectItems(p, depth, names, i + 1, acc, visited, maxDepth)

\* collect_windows_metadata_recursive
CollectWindowsMetadataRecursive(p, maxDepth) ==
    LET c == CollectRecursive(p, 0, {}, maxDepth) IN
    IF c.isNone THEN NewResult(p, 0) ELSE c.node


(***************************************************************************)
(* search.py: the regular expression find_files_windows builds             *)
(***************************************************************************)
\* the characters re.escape puts a backslash in front of
ReSpecial == {"(", ")", "[", "]", "{", "}", "?", "*", "+", "-", "|", "^",
              "$", "\\", ".", "&", "~", "#", " "}

\* re.escape
RECURSIVE ReEscape(_)
ReEscape(s) ==
    IF s = <<>> THEN <<>>
    ELSE (IF Head(s) \in ReSpecial THEN <<"\\", Head(s)>> ELSE <<Head(s)>>)
         \o ReEscape(Tail(s))

\* str.replace(old, new): leftmost non-overlapping occurrences
RECURSIVE Replace(_, _, _)
Replace(s, old, new) ==
    IF Len(s) < Len(old) THEN s
    ELSE IF SubSeq(s, 1, Len(old)) = old
         THEN new \o Replace(SubSeq(s, Len(old) + 1, Len(s)), old, new)
         ELSE <<Head(s)>> \o Replace(Tail(s), old, new)

\* '^' + re.escape(pattern).replace('\\*', '.*').replace('\\?', '.') + '$'
RegexPattern(pattern) ==
    <<"^">>
    \o Replace(Replace(ReEscape(pattern), <<"\\", "*">>, <<".", "*">>),
               <<"\\", "?">>, <<".">>)
    \o <<"$">>

\* the regular-expression compiler on the strings RegexPattern builds:
\* "\c" is the literal c, ".*" any run of characters, "." any one
\* character, "^" and "$" the two ends
RECURSIVE ReParse(_)
ReParse(r) ==
    IF r = <<>> THEN <<>>
    ELSE IF Head(r) = "\\" /\ Len(r) >= 2
         THEN <<[t |-> "lit", c |-> r[2]]>> \o ReParse(SubSeq(r, 3, Len(r)))
    ELSE IF Head(r) = "." /\ Len(r) >= 2 /\ r[2] = "*"
         THEN <<[t |-> "anystar", c |-> "."]>>
              \o ReParse(SubSeq(r, 3, Len(r)))
    ELSE IF Head(r) = "."
         THEN <<[t |-> "any", c |-> "."]>> \o ReParse(Tail(r))
    ELSE IF Head(r) = "^"
         THEN <<[t |-> "bol", c |-> "^"]>> \o ReParse(Tail(r))
    ELSE IF Head(r) = "$"
         THEN <<[t |-> "eol", c |-> "$"]>> \o ReParse(Tail(r))
    ELSE <<[t |-> "lit", c |-> Head(r)]>> \o ReParse(Tail(r))

\* re.match from token i and position j of the name (names hold no line
\* breaks, so "$" is the end of the name and "." any character)
RECURSIVE ReMatchFrom(_, _, _, _, _)
ReMatchFrom(toks, i, name, j, ignoreCase) ==
    IF i > Len(toks) THEN TRUE
    ELSE LET tk == toks[i] IN
         CASE tk.t = "bol" ->
                  j = 1 /\ ReMatchFrom(toks, i + 1, name, j, ignoreCase)
           [] tk.t = "eol" ->
                  j = Len(name) + 1
                  /\ ReMatchFrom(toks, i + 1, name, j, ignoreCase)
           [] tk.t = "any" ->
                  j <= Len(name)
                  /\ ReMatchFrom(toks, i + 1, name, j + 1, ignoreCase)
           [] tk.t = "anystar" ->
                  \E k \in j..(Len(name) + 1) :
                      ReMatchFrom(toks, i + 1, name, k, ignoreCase)
           [] OTHER ->
                  /\ j <= Len(name)
                  /\ IF ignoreCase
                     THEN LowerChar(name[j]) = LowerChar(tk.c)
                     ELSE name[j] = tk.c
                  /\ ReMatchFrom(toks, i + 1, name, j + 1, ignoreCase)

\* re.match(regex_pattern, filename) with the (?i) flag when not
\* case_sensitive
PatternMatches(pattern, filename, caseSensitive) ==
    ReMatchFrom(ReParse(RegexPattern(pattern)), 1, filename, 1,
                ~caseSensitive)

RECURSIVE PatternSearch(_, _, _)
RECURSIVE PatternSearchItems(_, _, _, _, _)

\* find_files_windows.search_recursive: the paths it appends to results
PatternSearch(pattern, p, caseSensitive) ==
    LET r == ListDirectory(p) IN
    IF ~r.ok THEN <<>>
    ELSE PatternSearchItems(pattern, p, caseSensitive, r.items, 1)

\* the for loop of find_files_windows.search_recursive from item i on
PatternSearchItems(pattern, p, caseSensitive, items, i) ==
    IF i > Len(items) THEN <<>>
    ELSE LET it == items[i]
             full == Append(p, it.id)
             here == IF it.type = "file"
                     THEN IF PatternMatches(pattern, it.name, caseSensitive)
                          THEN <<full>> ELSE <<>>
                     ELSE PatternSearch(pattern, full, caseSensitive)
         IN here \o PatternSearchItems(pattern, p, caseSensitive, items, i + 1)

\* find_files_windows
FindFilesWindows(pattern, p, caseSensitive) ==
    PatternSearch(pattern, p, caseSensitive)

(***************************************************************************)
(* search.find_by_windows_extension                                        *)
(***************************************************************************)
\* the normalisation loop: a leading dot is added when missing, then lower
NormalizedExts(extensions) ==
    [i \in 1..Len(extensions) |->
        Lower(IF StartsWith(extensions[i], <<".">>)
              THEN extensions[i]
              ELSE <<".">> \o extensions[i])]

RECURSIVE ExtensionSearch(_, _)
RECURSIVE ExtensionSearchItems(_, _, _, _)

\* find_by_windows_extension.search_recursive
ExtensionSearch(normalized, p) ==
    LET r == ListDirectory(p) IN
    IF ~r.ok THEN <<>>
    ELSE ExtensionSearchItems(normalized, p, r.items, 1)

\* the for loop of find_by_windows_extension.search_recursive
ExtensionSearchItems(normalized, p, items, i) ==
    IF i > Len(items) THEN <<>>
    ELSE LET it == items[i]
             full == Append(p, it.id)
             ext == Lower(SplitExt(it.name))
             here == IF it.type = "file"
                     THEN IF \E k \in 1..Len(normalized) : normalized[k] = ext
                          THEN <<full>> ELSE <<>>
                     ELSE ExtensionSearch(normalized, full)
         IN here \o ExtensionSearchItems(normalized, p, items, i + 1)

\* find_by_windows_extension
FindByWindowsExtension(extensions, p) ==
    ExtensionSearch(NormalizedExts(extensions), p)

(***************************************************************************)
(* search.find_large_files_windows                                         *)
(***************************************************************************)
RECURSIVE LargeSearch(_, _)
RECURSIVE LargeSearchItems(_, _, _, _)

\* find_large_files_windows._search_recursive
LargeSearch(minSizeBytes, p) ==
    LET r == ListDirectory(p) IN
    IF ~r.ok THEN <<>>
    ELSE LargeSearchItems(minSizeBytes, p, r.items, 1)

\* the for loop of find_large_files_windows._search_recursive
LargeSearchItems(minSizeBytes, p, items, i) ==
    IF i > Len(items) THEN <<>>
    ELSE LET it == items[i]
             full == Append(p, it.id)
             here == IF it.type = "file" /\ it.size >= minSizeBytes
                     THEN <<[path |-> full,
                             size_mb |-> [num |-> it.size, den |-> MegaByte],
                             size_bytes |-> it.size,
                             type |-> Lower(SplitExt(it.name)),
                             modified |-> it.modified]>>
                     ELSE IF it.type = "dir"
                     THEN LargeSearch(minSizeBytes, full)
                     ELSE <<>>
         IN here \o LargeSearchItems(minSizeBytes, p, items, i + 1)

\* results.sort(key=size_bytes, reverse=True): stable, largest first
RECURSIVE SortBySizeDescending(_)
SortBySizeDescending(hits) ==
    IF hits = <<>> THEN <<>>
    ELSE LET x == Head(hits)
             rest == SortBySizeDescending(Tail(hits))
             k == Cardinality({i \in 1..Len(rest) :
                                  rest[i].size_bytes > x.size_bytes})
         IN SubSeq(rest, 1, k) \o <<x>> \o SubSeq(rest, k + 1, Len(rest))

\* find_large_files_windows; the threshold min_size_mb is given in halves
\* of a megabyte, so min_size_mb * 1024 * 1024 = halfMB * 524288
FindLargeFilesWindows(halfMB, p) ==
    SortBySizeDescending(LargeSearch(halfMB * HalfMegaByte, p))


(***************************************************************************)
(* search.find_windows_system_files                                        *)
(***************************************************************************)
SystemExtensions ==
    { <<".","e","x","e">>, <<".","d","l","l">>, <<".","s","y","s">>,
      <<".","d","r","v">>, <<".","o","c","x">>, <<".","c","p","l">>,
      <<".","m","s","i">> }

SystemDirs ==
    { <<"w","i","n","d","o","w","s">>,
      <<"s","y","s","t","e","m","3","2">>,
      <<"s","y","s","t","e","m">>,
      <<"p","r","o","g","r","a","m"," ","f","i","l","e","s">>,
      <<"p","r","o","g","r","a","m"," ","f","i","l","e","s"," ","(","x",
        "8","6",")">> }

\* the string of a path: the names joined by os.path.join
RECURSIVE PathString(_)
PathString(p) ==
    IF Len(p) = 1 THEN fs[p[1]].name
    ELSE PathString(SubSeq(p, 1, Len(p) - 1)) \o <<"\\">> \o fs[Last(p)].name

\* sub in s for strings
Contains(s, sub) ==
    \E i \in 1..(Len(s) - Len(sub) + 1) : SubSeq(s, i, i + Len(sub) - 1) = sub

RECURSIVE SystemSearch(_)
RECURSIVE SystemSearchItems(_, _, _)

\* find_windows_system_files._search_recursive
SystemSearch(p) ==
    LET r == ListDirectory(p) IN
    IF ~r.ok THEN <<>>
    ELSE SystemSearchItems(p, r.items, 1)

\* the for loop of find_windows_system_files._search_recursive
SystemSearchItems(p, items, i) ==
    IF i > Len(items) THEN <<>>
    ELSE LET it == items[i]
             full == Append(p, it.id)
             ext == Lower(SplitExt(it.name))
             pathLower == Lower(PathString(p))
             isInSystemDir == \E d \in SystemDirs : Contains(pathLower, d)
             here == IF it.type = "file"
                     THEN IF ext \in SystemExtensions \/ isInSystemDir
                          THEN <<full>> ELSE <<>>
                     ELSE SystemSearch(full)
         IN here \o SystemSearchItems(p, items, i + 1)

\* find_windows_system_files
FindWindowsSystemFiles(p) == SystemSearch(p)

(***************************************************************************)
(* The directory trees the operations run on.                              *)
(***************************************************************************)
File(parent, name, size, statOk, sizeOk, attrs) ==
    [parent |-> parent, name |-> name, kind |-> "file", target |-> NoNode,
     size |-> size, listErr |-> "none", statOk |-> statOk,
     sizeOk |-> sizeOk, attrs |-> attrs]

Dir(parent, name, listErr) ==
    [parent |-> parent, name |-> name, kind |-> "dir", target |-> NoNode,
     size |-> 0, listErr |-> listErr, statOk |-> TRUE, sizeOk |-> TRUE,
     attrs |-> 16]

Link(parent, name, target) ==
    [parent |-> parent, name |-> name, kind |-> "link", target |-> target,
     size |-> 0, listErr |-> "none", statOk |-> TRUE, sizeOk |-> TRUE,
     attrs |-> 0]

Bin == Ids.bin
LinkNode == Ids.link
ChainBase == Ids.chain
DeepFile == Ids.deep

\* the sizes of the three files of the root directory
SizeChoices == { <<512000, MegaByte, 2 * MegaByte>>,
                 <<MegaByte, MegaByte, MegaByte>>,
                 <<0, 2 * MegaByte, 7>> }

\* which file cannot be read: none, c cannot be stat'ed, or the size of
\* a.TXT cannot be read by os.path.getsize
UnreadChoices == {"none", "stat", "getsize"}

LinkChoices == {"absent", "root", "parent", "file", "broken"}

ChainChoices == {0, 2, MaxChain}

\* a root that cannot be listed, or a readable root over the variations
TreeParams ==
    [rootErr : {"perm", "notfound", "oserror"}, binErr : {"none"},
     link : {"absent"}, chain : {0}, sizes : {<<0, 2 * MegaByte, 7>>},
     unread : {"none"}]
    \cup
    [rootErr : {"none"}, binErr : {"none", "perm"}, link : LinkChoices,
     chain : ChainChoices, sizes : SizeChoices, unread : UnreadChoices]

\* the tree of one parameter choice:
\*   R\ b.txt  a.TXT  c  Bin\  System\System\...\System\e.txt
\*   Bin\  data1.csv  dataX.csv  data12.csv  data.csv  u.Exe  [lnk -> ...]
MakeTree(par) ==
    (Root :> Dir(NoNode, <<"R">>, par.rootErr))
    @@ (Ids.b :> File(Root, <<"b",".","t","x","t">>, par.sizes[1], TRUE, TRUE, 2))
    @@ (Ids.a :> File(Root, <<"a",".","T","X","T">>, par.sizes[2], TRUE,
                  par.unread # "getsize", 1))
    @@ (Ids.c :> File(Root, <<"c">>, par.sizes[3], par.unread # "stat",
                  TRUE, 0))
    @@ (Bin :> Dir(Root, <<"B","i","n">>, par.binErr))
    @@ (Ids.data1 :> File(Bin, <<"d","a","t","a","1",".","c","s","v">>, MegaByte,
                  TRUE, TRUE, 6))
    @@ (Ids.dataX :> File(Bin, <<"d","a","t","a","X",".","c","s","v">>, 10,
                  TRUE, TRUE, 0))
    @@ (Ids.data12 :> File(Bin, <<"d","a","t","a","1","2",".","c","s","v">>, 20,
                  TRUE, TRUE, 0))
    @@ (Ids.data :> File(Bin, <<"d","a","t","a",".","c","s","v">>, 2 * MegaByte,
                  TRUE, TRUE, 0))
    @@ (Ids.exe :> File(Bin, <<"u",".","E","x","e">>, 30, TRUE, TRUE, 4))
    @@ (IF par.link = "absent" THEN [n \in {} |-> Dir(NoNode, <<>>, "none")]
        ELSE (LinkNode :> Link(Bin, <<"l","n","k">>,
                 CASE par.link = "root"   -> Root
                   [] par.link = "parent" -> Bin
                   [] par.link = "file"   -> Ids.b
                   [] OTHER               -> NoNode)))
    @@ [n \in (ChainBase + 1)..(ChainBase + par.chain) |->
           Dir(IF n = ChainBase + 1 THEN Root ELSE n - 1,
               <<"S","y","s","t","e","m">>, "none")]
    @@ (IF par.chain = 0 THEN [n \in {} |-> Dir(NoNode, <<>>, "none")]
        ELSE (DeepFile :> File(ChainBase + par.chain,
                               <<"e",".","t","x","t">>, 2 * MegaByte,
                               TRUE, TRUE, 0)))

\* the paths the operations are started on
StartPaths == { <<Root>>, <<Root, Bin>> }

\* the paths the searches are started on
SearchRoots == { <<Root>> }

\* the inputs of the searches
Patterns ==
    { <<"d","a","t","a","?",".","c","s","v">>,
      <<"*",".","t","x","t">>,
      <<"*">>,
      <<"d",".","t","a","?",".","c","s","v">>,
      <<"[","c","]">>,
      <<"c","+">>,
      <<"b",".","t","x">>,
      <<"A",".","t","x","t">>,
      <<"?">>,
      <<"d","a","t","a","*",".","C","S","V">> }

ExtensionLists ==
    { << <<"t","x","t">>, <<".","C","S","V">> >>,
      << <<".","T","X","T">>, <<"c","s","v">> >>,
      << <<".","t","x","t">> >>,
      << <<"T","X","T">> >>,
      << <<"c","s","v">> >>,
      << <<>> >>,
      << >> }

HalfMegaBytes == {1, 2, 4}

ScanDepths == {0, 1, DefaultMaxDepth}

(***************************************************************************)
(* The state machine: a tree is fixed, then operations are called on it    *)
(* one at a time and their results handed back.                            *)
(***************************************************************************)
Init ==
    /\ \E par \in TreeParams : fs = MakeTree(par)
    /\ op = "idle"
    /\ arg = <<>>
    /\ res = <<>>

CallListDirectory ==
    /\ op = "idle"
    /\ \E p \in StartPaths :
        /\ op' = "list"
        /\ arg' = [path |-> p]
        /\ res' = ListDirectory(p)
    /\ UNCHANGED fs

CallCountFiles ==
    /\ op = "idle"
    /\ \E p \in StartPaths :
        /\ op' = "count_files"
        /\ arg' = [path |-> p]
        /\ res' = CountFiles(p)
    /\ UNCHANGED fs

CallCountBytes ==
    /\ op = "idle"
    /\ \E p \in StartPaths :
        /\ op' = "count_bytes"
        /\ arg' = [path |-> p]
        /\ res' = CountBytes(p)
    /\ UNCHANGED fs

CallAnalyzeTypes ==
    /\ op = "idle"
    /\ \E p \in StartPaths :
        /\ op' = "types"
        /\ arg' = [path |-> p]
        /\ res' = AnalyzeWindowsFileTypes(p)
    /\ UNCHANGED fs

CallAttributeStats ==
    /\ op = "idle"
    /\ \E p \in StartPaths :
        /\ op' = "attrs"
        /\ arg' = [path |-> p]
        /\ res' = GetWindowsFileAttributesStats(p)
    /\ UNCHANGED fs

CallScan ==
    /\ op = "idle"
    /\ \E p \in StartPaths, d \in ScanDepths :
        /\ op' = "scan"
        /\ arg' = [path |-> p, maxDepth |-> d]
        /\ res' = CollectWindowsMetadataRecursive(p, d)
    /\ UNCHANGED fs

CallFindFiles ==
    /\ op = "idle"
    /\ \E p \in SearchRoots, pat \in Patterns, cs \in BOOLEAN :
        /\ op' = "find_pattern"
        /\ arg' = [path |-> p, pattern |-> pat, caseSensitive |-> cs]
        /\ res' = FindFilesWindows(pat, p, cs)
    /\ UNCHANGED fs

CallFindByExtension ==
    /\ op = "idle"
    /\ \E p \in SearchRoots, exts \in ExtensionLists :
        /\ op' = "find_ext"
        /\ arg' = [path |-> p, extensions |-> exts]
        /\ res' = FindByWindowsExtension(exts, p)
    /\ UNCHANGED fs

CallFindLarge ==
    /\ op = "idle"
    /\ \E p \in SearchRoots, h \in HalfMegaBytes :
        /\ op' = "find_large"
        /\ arg' = [path |-> p, halfMB |-> h]
        /\ res' = FindLargeFilesWindows(h, p)
    /\ UNCHANGED fs

CallFindSystem ==
    /\ op = "idle"
    /\ \E p \in SearchRoots :
        /\ op' = "find_system"
        /\ arg' = [path |-> p]
        /\ res' = FindWindowsSystemFiles(p)
    /\ UNCHANGED fs

\* the caller takes the result
Return ==
    /\ op \notin {"idle", "scanning"}
    /\ op' = "idle"
    /\ arg' = <<>>
    /\ res' = <<>>
    /\ UNCHANGED fs

(***************************************************************************)
(* The scan step by step: res holds the call stack of _collect_recursive   *)
(* and the visited set while op = "scanning".                              *)
(***************************************************************************)
\* the frame of a call that got past the depth and visited tests: its
\* result dictionary, the entries os.listdir gave (none when it raised)
\* and the index of the entry the loop is at
OpenFrame(p, depth) ==
    LET l == OsListdir(p) IN
    [node |-> NewResult(p, depth),
     names |-> IF l.err = "none" THEN l.names ELSE <<>>,
     i |-> 1]

Top == res.stack[Len(res.stack)]

\* the entry the loop of the running call is at
AtEntry == op = "scanning" /\ Top.i <= Len(Top.names)

CurrentEntry == Append(Top.node.path, Top.names[Top.i])

\* the stack with the running frame's result replaced and its loop advanced
Advance(node) ==
    [res.stack EXCEPT ![Len(res.stack)] =
        [node |-> node, names |-> @.names, i |-> @.i + 1]]

\* collect_windows_metadata_recursive is called: the root call passes the
\* tests (depth 0, nothing visited) and lists the start path
ScanBegin ==
    /\ op = "idle"
    /\ \E p \in StartPaths, d \in ScanDepths :
        /\ op' = "scanning"
        /\ arg' = [path |-> p, maxDepth |-> d]
        /\ res' = [stack |-> <<OpenFrame(p, 0)>>, visited |-> {p}]
    /\ UNCHANGED fs

\* a symbolic link is skipped
ScanEntryLink ==
    /\ AtEntry
    /\ EntryClass(CurrentEntry) = "link"
    /\ res' = [res EXCEPT !.stack = Advance(Top.node)]
    /\ UNCHANGED <<fs, op, arg>>

\* a file is counted
ScanEntryFile ==
    /\ AtEntry
    /\ EntryClass(CurrentEntry) = "file"
    /\ res' = [res EXCEPT !.stack =
                  Advance(CollectFile([Top.node EXCEPT !.files = @ + 1],
                                      CurrentEntry,
                                      fs[Top.names[Top.i]].name))]
    /\ UNCHANGED <<fs, op, arg>>

\* ScanEntryDir without the tests on the depth
ScanEntryDirWithoutDepthTest ==
    /\ AtEntry
    /\ EntryClass(CurrentEntry) = "dir"
    /\ LET counted == [Top.node EXCEPT !.dirs = @ + 1]
           depth == Top.node.depth
       IN IF CurrentEntry \notin res.visited
          THEN res' = [stack |->
                          Append([res.stack EXCEPT ![Len(res.stack)] =
                                     [node |-> counted, names |-> @.names,
                                      i |-> @.i]],
                                 OpenFrame(CurrentEntry, depth + 1)),
                       visited |-> res.visited \cup {CurrentEntry}]
          ELSE res' = [res EXCEPT !.stack = Advance(counted)]
    /\ UNCHANGED <<fs, op, arg>>

\* a directory is counted and, below the depth cap and unless its path was
\* visited, descended into
ScanEntryDir ==
    /\ AtEntry
    /\ EntryClass(CurrentEntry) = "dir"
    /\ LET counted == [Top.node EXCEPT !.dirs = @ + 1]
           depth == Top.node.depth
       IN IF /\ depth < arg.maxDepth
             /\ ~(depth + 1 > arg.maxDepth \/ CurrentEntry \in res.visited)
          THEN res' = [stack |->
                          Append([res.stack EXCEPT ![Len(res.stack)] =
                                     [node |-> counted, names |-> @.names,
                                      i |-> @.i]],
                                 OpenFrame(CurrentEntry, depth + 1)),
                       visited |-> res.visited \cup {CurrentEntry}]
          ELSE res' = [res EXCEPT !.stack = Advance(counted)]
    /\ UNCHANGED <<fs, op, arg>>

\* an entry that is neither a file nor a directory is passed over
ScanEntryOther ==
    /\ AtEntry
    /\ EntryClass(CurrentEntry) = "other"
    /\ res' = [res EXCEPT !.stack = Advance(Top.node)]
    /\ UNCHANGED <<fs, op, arg>>

\* the loop of a nested call is over: its result is folded into the caller
ScanLeaveChild ==
    /\ op = "scanning"
    /\ Top.i > Len(Top.names)
    /\ Len(res.stack) > 1
    /\ LET k == Len(res.stack) - 1 IN
       res' = [res EXCEPT !.stack =
                  [SubSeq(res.stack, 1, k) EXCEPT ![k] =
                      [node |-> FoldChild(@.node, Top.node),
                       names |-> @.names, i |-> @.i + 1]]]
    /\ UNCHANGED <<fs, op, arg>>

\* the loop of the root call is over: the scan returns its result
ScanFinish ==
    /\ op = "scanning"
    /\ Top.i > Len(Top.names)
    /\ Len(res.stack) = 1
    /\ op' = "scan"
    /\ res' = Top.node
    /\ UNCHANGED <<fs, arg>>

ScanStep ==
    \/ ScanEntryLink
    \/ ScanEntryFile
    \/ ScanEntryDir
    \/ ScanEntryOther
    \/ ScanLeaveChild
    \/ ScanFinish

NextScan ==
    \/ ScanBegin
    \/ ScanStep
    \/ Return

\* the trees of the step-by-step scan: one choice of file sizes
InitScan ==
    /\ \E par \in {q \in TreeParams :
                       q.sizes = <<0, 2 * MegaByte, 7>>} :
           fs = MakeTree(par)
    /\ op = "idle"
    /\ arg = <<>>
    /\ res = <<>>

\* the scan alone, one step at a time
SpecScan == InitScan /\ [][NextScan]_vars

\* a running scan goes on running: the recursion is synchronous
SpecScanFair == SpecScan /\ WF_vars(ScanStep)

Next ==
    \/ CallListDirectory
    \/ CallCountFiles
    \/ CallCountBytes
    \/ CallAnalyzeTypes
    \/ CallAttributeStats
    \/ CallScan
    \/ CallFindFiles
    \/ CallFindByExtension
    \/ CallFindLarge
    \/ CallFindSystem
    \/ Return

Spec == Init /\ [][Next]_vars


(***************************************************************************)
(* What the tree holds, read off the tree itself and not off a traversal.  *)
(***************************************************************************)
\* the directory the current call was started on
StartDir == Deref(Last(arg.path))

\* node n lies below directory d, every directory from d down to n being
\* a real (not linked) directory that can be listed
RECURSIVE VisibleUnder(_, _)
VisibleUnder(n, d) ==
    LET q == fs[n].parent IN
    /\ q # NoNode
    /\ fs[q].kind = "dir"
    /\ fs[q].listErr = "none"
    /\ (q = d \/ VisibleUnder(q, d))

RegularFilesBelow(d) ==
    {n \in DOMAIN fs : fs[n].kind = "file" /\ VisibleUnder(n, d)}

DirsBelow(d) ==
    {n \in DOMAIN fs : fs[n].kind = "dir" /\ VisibleUnder(n, d)}

\* number of directory levels between d and a node below it
RECURSIVE DepthBelow(_, _)
DepthBelow(n, d) == IF n = d THEN 0 ELSE 1 + DepthBelow(fs[n].parent, d)

\* the path of node n from the root through real directories only
RECURSIVE DirectPath(_)
DirectPath(n) ==
    IF fs[n].parent = NoNode THEN <<n>>
    ELSE Append(DirectPath(fs[n].parent), n)

\* the size a stat call reports for a file, 0 when it cannot be stat'ed
StatSize(n) == IF fs[n].statOk THEN fs[n].size ELSE 0

\* the size os.path.getsize reports for a file, 0 when it cannot be read
ReadableSize(n) == IF fs[n].statOk /\ fs[n].sizeOk THEN fs[n].size ELSE 0

RECURSIVE SumStatSize(_)
SumStatSize(S) ==
    IF S = {} THEN 0
    ELSE LET x == CHOOSE y \in S : TRUE IN StatSize(x) + SumStatSize(S \ {x})

RECURSIVE SumReadableSize(_)
SumReadableSize(S) ==
    IF S = {} THEN 0
    ELSE LET x == CHOOSE y \in S : TRUE
         IN ReadableSize(x) + SumReadableSize(S \ {x})

\* no directory below d nests deeper than maxDepth levels
WithinDepth(d, maxDepth) ==
    \A n \in DirsBelow(d) : DepthBelow(n, d) <= maxDepth

\* every node of a scan result
RECURSIVE NodesOf(_)
NodesOf(r) ==
    {r} \cup UNION {NodesOf(r.children[i]) : i \in 1..Len(r.children)}

RECURSIVE SumTypeCount(_, _)
SumTypeCount(types, keys) ==
    IF keys = {} THEN 0
    ELSE LET k == CHOOSE x \in keys : TRUE
         IN types[k].count + SumTypeCount(types, keys \ {k})

RECURSIVE SumTypeSize(_, _)
SumTypeSize(types, keys) ==
    IF keys = {} THEN 0
    ELSE LET k == CHOOSE x \in keys : TRUE
         IN types[k].size + SumTypeSize(types, keys \ {k})

C2_ScanSumsEveryFile ==
    (op = "scan" /\ arg.maxDepth = DefaultMaxDepth) =>
        res.size = SumReadableSize(RegularFilesBelow(StartDir))

\* C2 amended: when no directory nests deeper than maxDepth, totalBytes is
\* the sum of the sizes of the regular files below the start directory, a
\* file whose size cannot be read counting 0; links and directories add
\* nothing.
C2_ScanSumsFilesWithinDepth ==
    (op = "scan" /\ WithinDepth(StartDir, arg.maxDepth)) =>
        res.size = SumReadableSize(RegularFilesBelow(StartDir))

\* a default-depth scan of the root with a symbolic link to the file b.txt
\* in Bin has summed a positive number of bytes
C2_Witness ==
    /\ op = "scan"
    /\ arg.maxDepth = DefaultMaxDepth
    /\ arg.path = <<Root>>
    /\ WithinDepth(Root, DefaultMaxDepth)
    /\ LinkNode \in DOMAIN fs
    /\ fs[LinkNode].target = Ids.b
    /\ fs[Ids.b].size > 0
    /\ DeepFile \in DOMAIN fs
    /\ res.size > 3 * MegaByte

(***************************************************************************)
(* C3                                                                      *)
(***************************************************************************)
\* C3 as stated: in every node of a scan result the counts of the type
\* table sum to the node's fileCount and its sizes to the node's totalBytes.
C3_TypeTableSumsToTotals ==
    op = "scan" =>
        \A node \in NodesOf(res) :
            /\ SumTypeCount(node.types, DOMAIN node.types) = node.files
            /\ SumTypeSize(node.types, DOMAIN node.types) = node.size


(***************************************************************************)
(* C5                                                                      *)
(***************************************************************************)
\* the directory at path p can be listed
CanBeListed(p) == OsListdir(p).err = "none"

\* the zero or empty value of the count-only operation in progress
IsZeroValue(v) == IF op = "types" THEN DOMAIN v = {} ELSE v = 0

\* C5 as stated: count_files, count_bytes and analyze_windows_file_types
\* return ok = FALSE with a zero value exactly when the directory at the
\* path passed in cannot be listed, so that a failed root differs from a
\* root that was read and is empty.
C5_RootFailureIsSignalled ==
    op \in {"count_files", "count_bytes", "types"} =>
        /\ res.ok <=> CanBeListed(arg.path)
        /\ ~CanBeListed(arg.path) => IsZeroValue(res.value)

(***************************************************************************)
(* C7                                                                      *)
(***************************************************************************)
\* C7 as stated: list_directory returns ok = FALSE and no entries when the
\* directory cannot be opened, and ok = TRUE only when it was read.
C7_ListSignalsFailure ==
    op = "list" =>
        /\ res.ok <=> CanBeListed(arg.path)
        /\ ~CanBeListed(arg.path) => res.items = <<>>

(***************************************************************************)
(* C6                                                                      *)
(***************************************************************************)
\* the directories strictly below d whose listing fails
FailingDirsBelow(d) ==
    {n \in DirsBelow(d) : fs[n].listErr # "none"}

\* the extension table of a set of files, as list_directory sees them
TypeTableOf(S) ==
    [k \in {Lower(SplitExt(fs[n].name)) : n \in S} |->
        LET same == {n \in S : Lower(SplitExt(fs[n].name)) = k}
        IN [count |-> Cardinality(same), bytes |-> SumStatSize(same)]]

\* the paths of the hits of the search in progress
HitPaths ==
    IF op = "find_large" THEN {res[i].path : i \in 1..Len(res)}
    ELSE {res[i] : i \in 1..Len(res)}

\* file n is one the search in progress selects
Selected(n) ==
    CASE op = "find_pattern" ->
             PatternMatches(arg.pattern, fs[n].name, arg.caseSensitive)
      [] op = "find_ext" ->
             \E k \in 1..Len(arg.extensions) :
                 NormalizedExts(arg.extensions)[k]
                     = Lower(SplitExt(fs[n].name))
      [] op = "find_large" -> StatSize(n) >= arg.halfMB * HalfMegaByte
      [] op = "find_system" ->
             \/ Lower(SplitExt(fs[n].name)) \in SystemExtensions
             \/ \E d \in SystemDirs :
                    Contains(Lower(PathString(DirectPath(fs[n].parent))), d)

\* C6: when a directory strictly below the start directory cannot be
\* listed, the count-only operations still return ok = TRUE with the
\* totals of everything outside the failing directories, and the four
\* searches return no hit from inside a failing directory and every
\* selected file outside of them.
C6_SubdirectoryFailureIsContained ==
    (op # "idle" /\ CanBeListed(arg.path)
       /\ FailingDirsBelow(StartDir) # {}) =>
        /\ op = "count_files" =>
              /\ res.ok
              /\ res.value = Cardinality(RegularFilesBelow(StartDir))
        /\ op = "count_bytes" =>
              /\ res.ok
              /\ res.value = SumStatSize(RegularFilesBelow(StartDir))
        /\ op = "types" =>
              /\ res.ok
              /\ res.value = TypeTableOf(RegularFilesBelow(StartDir))
        /\ op \in {"find_pattern", "find_ext", "find_large", "find_system"} =>
              /\ \A p \in HitPaths : \A i \in 1..(Len(p) - 1) :
                     fs[p[i]].listErr = "none"
              /\ \A n \in RegularFilesBelow(StartDir) :
                     Selected(n) => DirectPath(n) \in HitPaths

\* count_files on the root while Bin cannot be listed and the chain of
\* System directories, sorted after Bin, holds a file: the three files of
\* the root and the file of the chain are counted
C6_Witness ==
    /\ op = "count_files"
    /\ arg.path = <<Root>>
    /\ fs[Bin].listErr = "perm"
    /\ DeepFile \in DOMAIN fs
    /\ res.ok
    /\ res.value = 4


(***************************************************************************)
(* C8                                                                      *)
(***************************************************************************)
\* the wildcard match C8 describes, from position i of the pattern and j
\* of the name: "*" is any run of characters, "?" any one character, every
\* other character itself, up to letter case unless caseSensitive
RECURSIVE WildcardFrom(_, _, _, _, _)
WildcardFrom(pattern, i, name, j, caseSensitive) ==
    IF i > Len(pattern) THEN j > Len(name)
    ELSE IF pattern[i] = "*"
         THEN \/ WildcardFrom(pattern, i + 1, name, j, caseSensitive)
              \/ /\ j <= Len(name)
                 /\ WildcardFrom(pattern, i, name, j + 1, caseSensitive)
    ELSE /\ j <= Len(name)
         /\ \/ pattern[i] = "?"
            \/ pattern[i] = name[j]
            \/ ~caseSensitive /\ LowerChar(pattern[i]) = LowerChar(name[j])
         /\ WildcardFrom(pattern, i + 1, name, j + 1, caseSensitive)

\* the length of a sequence of hits equals the number of distinct paths
NoDuplicateHits == Len(res) = Cardinality(HitPaths)

\* C8 as stated: find_files_windows returns exactly the files below the
\* root whose whole name matches the wildcard pattern.
C8_PatternSearchIsExact ==
    op = "find_pattern" =>
        /\ HitPaths =
             {DirectPath(n) : n \in
                 {m \in RegularFilesBelow(StartDir) :
                     WildcardFrom(arg.pattern, 1, fs[m].name, 1,
                                  arg.caseSensitive)}}
        /\ NoDuplicateHits

(***************************************************************************)
(* C9                                                                      *)
(***************************************************************************)
\* two extension lists differ only in letter case and leading dots
SameExtensions(a, b) ==
    /\ Len(a) = Len(b)
    /\ \A i \in 1..Len(a) :
          LET strip(e) == IF StartsWith(e, <<".">>) THEN Tail(e) ELSE e
          IN Lower(strip(a[i])) = Lower(strip(b[i]))

\* C9 as stated: find_by_windows_extension returns exactly the files below
\* the root whose lowercased extension is one of the inputs, lowercased and
\* with a leading dot, and inputs that differ only in case or in the
\* leading dot give the same result.
C9_ExtensionSearchIsExact ==
    op = "find_ext" =>
        /\ HitPaths =
             {DirectPath(n) : n \in
                 {m \in RegularFilesBelow(StartDir) :
                     \E k \in 1..Len(arg.extensions) :
                         Lower(SplitExt(fs[m].name)) =
                             Lower(IF StartsWith(arg.extensions[k], <<".">>)
                                   THEN arg.extensions[k]
                                   ELSE <<".">> \o arg.extensions[k])}}
        /\ NoDuplicateHits
        /\ \A other \in ExtensionLists :
              SameExtensions(arg.extensions, other) =>
                  FindByWindowsExtension(other, arg.path) = res

(***************************************************************************)
(* C10                                                                     *)
(***************************************************************************)
\* the place of path p in the order of discovery of the traversal
DiscoveryIndex(p) ==
    LET found == LargeSearch(arg.halfMB * HalfMegaByte, arg.path)
    IN CHOOSE i \in 1..Len(found) : found[i].path = p

\* C10 as stated: find_large_files_windows returns exactly the files below
\* the root of at least min_size_mb megabytes, largest first, hits of
\* equal size in the order of discovery.
C10_LargeSearchIsExactAndOrdered ==
    op = "find_large" =>
        /\ HitPaths =
             {DirectPath(n) : n \in
                 {m \in RegularFilesBelow(StartDir) :
                     StatSize(m) >= arg.halfMB * HalfMegaByte}}
        /\ NoDuplicateHits
        /\ \A i \in 1..Len(res) : \A j \in (i + 1)..Len(res) :
              \/ res[i].size_bytes > res[j].size_bytes
              \/ /\ res[i].size_bytes = res[j].size_bytes
                 /\ DiscoveryIndex(res[i].path) < DiscoveryIndex(res[j].path)


(***************************************************************************)
(* C4                                                                      *)
(***************************************************************************)
RECURSIVE IsAncestor(_, _)
IsAncestor(a, n) ==
    /\ fs[n].parent # NoNode
    /\ (fs[n].parent = a \/ IsAncestor(a, fs[n].parent))

\* the tree holds a symbolic link to one of the link's ancestor directories
HasAncestorLink ==
    \E l \in DOMAIN fs :
        /\ fs[l].kind = "link"
        /\ fs[l].target # NoNode
        /\ IsAncestor(fs[l].target, l)

\* the files a scan from d reaches: those in directories at most maxDepth
\* levels below d that os.path.isfile recognises
FilesInScanRange(d, maxDepth) ==
    {n \in RegularFilesBelow(d) :
        fs[n].statOk /\ DepthBelow(fs[n].parent, d) <= maxDepth}

\* C4: on a tree with a symbolic link to an ancestor directory every scan
\* that was started returns, and the result counts each file in range once
\* in fileCount and totalBytes.
C4_ScanEndsAndCountsOnce ==
    /\ (op = "scanning" /\ HasAncestorLink) ~> (op = "scan")
    /\ [](op = "scan" /\ HasAncestorLink =>
            LET files == FilesInScanRange(StartDir, arg.maxDepth) IN
            /\ res.files = Cardinality(files)
            /\ res.size = SumReadableSize(files))

\* a default-depth scan of the root has returned on a tree where Bin\lnk
\* points back to the root, with the nine files counted once
C4_Witness ==
    /\ op = "scan"
    /\ arg.path = <<Root>>
    /\ arg.maxDepth = DefaultMaxDepth
    /\ LinkNode \in DOMAIN fs
    /\ fs[LinkNode].target = Root
    /\ DeepFile \in DOMAIN fs
    /\ res.files = 9 - Cardinality({n \in DOMAIN fs : ~fs[n].statOk})

(***************************************************************************)
(* C11                                                                     *)
(***************************************************************************)
\* file n has a system extension or lies directly in a directory whose
\* lowercased path holds one of the system fragments
IsSystemLike(n) ==
    \/ Lower(SplitExt(fs[n].name)) \in SystemExtensions
    \/ \E d \in SystemDirs :
           Contains(Lower(PathString(DirectPath(fs[n].parent))), d)

\* C11 as stated: find_windows_system_files returns a file below the root
\* if and only if its extension is a system extension or the path of its
\* directory holds a system fragment, and returns nothing else.
C11_SystemSearchIsExact ==
    op = "find_system" =>
        /\ HitPaths =
             {DirectPath(n) : n \in
                 {m \in RegularFilesBelow(StartDir) : IsSystemLike(m)}}
        /\ Len(res) = Cardinality(HitPaths)

(***************************************************************************)
(* C12                                                                     *)
(***************************************************************************)
\* path p names a symbolic link or passes through one
ThroughLink(p) == \E i \in 1..Len(p) : fs[p[i]].kind = "link"

\* C12 as stated: no search places the path of a symbolic link in its
\* result, and none recurses into a directory through a link.
C12_SearchesSkipLinks ==
    op \in {"find_pattern", "find_ext", "find_large", "find_system"} =>
        \A p \in HitPaths : ~ThroughLink(p)

(***************************************************************************)
(* Path strings (utill_rec.validate_windows_path_recursive and             *)
(* utill_rec.resolve_long_paths_recursive).  In this part of the model fs  *)
(* is the record [cwd, existing]: the working directory of the process and *)
(* the path strings os.path.exists accepts.                                *)
(***************************************************************************)
BackSlash == "\\"
Slash == "/"

\* c in s for a single character c
HasChar(s, c) == \E i \in 1..Len(s) : s[i] = c

\* str.count for a single character
CountChar(s, c) == Cardinality({i \in 1..Len(s) : s[i] = c})

\* str.find(c, start) with 1-based positions, 0 for not found
FindChar(s, c, start) ==
    LET at == {i \in start..Len(s) : s[i] = c} IN
    IF at = {} THEN 0 ELSE CHOOSE i \in at : \A j \in at : i <= j

\* str.split(c) for a single character c
RECURSIVE SplitOn(_, _)
SplitOn(s, c) ==
    LET i == FindChar(s, c, 1) IN
    IF i = 0 THEN <<s>>
    ELSE <<SubSeq(s, 1, i - 1)>> \o SplitOn(SubSeq(s, i + 1, Len(s)), c)

\* sep.join(parts)
RECURSIVE JoinWith(_, _)
JoinWith(parts, sep) ==
    IF parts = <<>> THEN <<>>
    ELSE IF Len(parts) = 1 THEN parts[1]
    ELSE parts[1] \o <<sep>> \o JoinWith(Tail(parts), sep)

\* str.isalpha
IsAlpha(s) ==
    /\ s # <<>>
    /\ \A i \in 1..Len(s) :
          \E k \in 1..26 : s[i] = UpperLetters[k] \/ s[i] = LowerLetters[k]

\* str.upper
UpperStr(s) ==
    [i \in 1..Len(s) |->
        IF \E k \in 1..26 : LowerLetters[k] = s[i]
        THEN UpperLetters[CHOOSE k \in 1..26 : LowerLetters[k] = s[i]]
        ELSE s[i]]

\* str.replace('/', '\\')
ToBackSlashes(s) == [i \in 1..Len(s) |-> IF s[i] = Slash THEN BackSlash ELSE s[i]]

\* s[a:] with the 1-based position a
From(s, a) == SubSeq(s, a, Len(s))

\* s[:n]
Take(s, n) == SubSeq(s, 1, IF n < Len(s) THEN n ELSE Len(s))

LongPrefix == <<BackSlash, BackSlash, "?", BackSlash>>
UncLongPrefix == LongPrefix \o <<"U", "N", "C", BackSlash>>

\* ntpath.splitroot of a path that holds no forward slash: drive, root and
\* the rest
SplitRoot(s) ==
    IF Len(s) >= 1 /\ s[1] = BackSlash
    THEN IF Len(s) >= 2 /\ s[2] = BackSlash
         THEN LET start == IF UpperStr(Take(s, 8)) = UncLongPrefix
                           THEN 9 ELSE 3
                  index == FindChar(s, BackSlash, start)
                  index2 == IF index = 0 THEN 0
                            ELSE FindChar(s, BackSlash, index + 1)
              IN IF index = 0 \/ index2 = 0
                 THEN [drive |-> s, root |-> <<>>, tail |-> <<>>]
                 ELSE [drive |-> SubSeq(s, 1, index2 - 1),
                       root |-> <<BackSlash>>,
                       tail |-> From(s, index2 + 1)]
         ELSE [drive |-> <<>>, root |-> <<BackSlash>>, tail |-> From(s, 2)]
    ELSE IF Len(s) >= 2 /\ s[2] = ":"
    THEN IF Len(s) >= 3 /\ s[3] = BackSlash
         THEN [drive |-> SubSeq(s, 1, 2), root |-> <<BackSlash>>,
               tail |-> From(s, 4)]
         ELSE [drive |-> SubSeq(s, 1, 2), root |-> <<>>, tail |-> From(s, 3)]
    ELSE [drive |-> <<>>, root |-> <<>>, tail |-> s]

\* the parts of a path without the empty ones and the "." ones
RECURSIVE WithoutEmptyAndDot(_)
WithoutEmptyAndDot(parts) ==
    IF parts = <<>> THEN <<>>
    ELSE IF Head(parts) = <<>> \/ Head(parts) = <<".">>
         THEN WithoutEmptyAndDot(Tail(parts))
         ELSE <<Head(parts)>> \o WithoutEmptyAndDot(Tail(parts))

\* pathlib.PureWindowsPath(s): drive, root and the parts after them
ParsePath(s) ==
    LET sp == SplitRoot(ToBackSlashes(s))
        drvParts == SplitOn(sp.drive, BackSlash)
        root == IF sp.root = <<>> /\ StartsWith(sp.drive, <<BackSlash>>)
                   /\ sp.drive[Len(sp.drive)] # BackSlash
                   /\ \/ Len(drvParts) = 4
                         /\ drvParts[3] \notin {<<"?">>, <<".">>}
                      \/ Len(drvParts) = 6
                THEN <<BackSlash>> ELSE sp.root
    IN [drive |-> sp.drive, root |-> root,
        parts |-> WithoutEmptyAndDot(SplitOn(sp.tail, BackSlash))]

\* str() of a parsed path
PathStr(q) ==
    LET text == q.drive \o q.root \o JoinWith(q.parts, BackSlash)
    IN IF text = <<>> THEN <<".">> ELSE text

\* str(Path(s).parent)
ParentStr(s) ==
    LET q == ParsePath(s) IN
    IF q.parts = <<>> THEN PathStr(q)
    ELSE PathStr([q EXCEPT !.parts = SubSeq(@, 1, Len(@) - 1)])

(***************************************************************************)
(* utill_rec.validate_windows_path_recursive                               *)
(***************************************************************************)
MAX_RECURSION_DEPTH == 50
MaxPathLength == 260

ForbiddenChars == <<"*", "?", "\"", ">", "<", "|">>

\* the problems the loop over forbidden_chars appends, from character k on
RECURSIVE ForbiddenProblems(_, _)
ForbiddenProblems(s, k) ==
    IF k > Len(ForbiddenChars) THEN <<>>
    ELSE (IF HasChar(s, ForbiddenChars[k])
          THEN <<[rule |-> "forbidden", char |-> ForbiddenChars[k],
                  path |-> s]>>
          ELSE <<>>) \o ForbiddenProblems(s, k + 1)

\* the test that guards the forward-slash problem
SlashRuleFires(s) ==
    /\ HasChar(s, Slash)
    /\ ~HasChar(Replace(s, <<":", Slash, Slash>>, <<>>), BackSlash)

\* the problems appended for ':' in the path
ColonProblems(s) ==
    IF ~HasChar(s, ":") THEN <<>>
    ELSE LET parts == SplitOn(s, ":") IN
         IF Len(parts) # 2
         THEN <<[rule |-> "colon", path |-> s]>>
         ELSE IF Len(parts[1]) # 1 \/ ~IsAlpha(parts[1])
         THEN <<[rule |-> "drive", drive |-> parts[1], path |-> s]>>
         ELSE <<>>

\* os.path.exists
Exists(s) == s \in fs.existing

\* LevelProblems without the loop over forbidden_chars
LevelProblemsWithoutForbidden(s, depth) ==
    (IF SlashRuleFires(s) THEN <<[rule |-> "slash", path |-> s]>>
     ELSE <<>>)
    \o ColonProblems(s)
    \o (IF Len(s) > MaxPathLength /\ ~StartsWith(s, LongPrefix)
        THEN <<[rule |-> "length", chars |-> Len(s)]>> ELSE <<>>)
    \o (IF depth = 0 /\ ~Exists(s)
        THEN <<[rule |-> "exists", path |-> s]>> ELSE <<>>)

\* the problems one call appends for its own path_str, in order
LevelProblems(s, depth) ==
    ForbiddenProblems(s, 1)
    \o (IF SlashRuleFires(s) THEN <<[rule |-> "slash", path |-> s]>>
        ELSE <<>>)
    \o ColonProblems(s)
    \o (IF Len(s) > MaxPathLength /\ ~StartsWith(s, LongPrefix)
        THEN <<[rule |-> "length", chars |-> Len(s)]>> ELSE <<>>)
    \o (IF depth = 0 /\ ~Exists(s)
        THEN <<[rule |-> "exists", path |-> s]>> ELSE <<>>)

\* whether the call on path_str calls itself on the parent
Recurses(s) ==
    LET parent == ParentStr(s) IN
    /\ parent # s
    /\ parent \notin {<<>>, <<".">>, <<Slash>>, <<BackSlash>>}
    /\ ~(StartsWith(s, <<BackSlash, BackSlash>>)
         /\ CountChar(s, BackSlash) <= 3)

\* a depth test that never stops the recursion
DepthNeverExceeded(depth) == FALSE

\* if depth > MAX_RECURSION_DEPTH
DepthExceeded(depth) == depth > MAX_RECURSION_DEPTH

\* the problem of a call deeper than MAX_RECURSION_DEPTH
DepthProblem == [rule |-> "depth", limit |-> MAX_RECURSION_DEPTH]

(***************************************************************************)
(* The path strings the two functions are called with.                     *)
(***************************************************************************)
\* number of directory names in the deepest path
DeepParts == 52

\* the character c, n times
Rep(c, n) == [i \in 1..n |-> c]

\* the name d followed by a backslash, n times
RECURSIVE Nested(_, _)
Nested(d, n) == IF n = 0 THEN <<>> ELSE d \o <<BackSlash>> \o Nested(d, n - 1)

DriveC == <<"C", ":", BackSlash>>
Users == <<"U", "s", "e", "r", "s">>
Share == <<BackSlash, BackSlash, "s", "r", "v", BackSlash, "s", "h">>

\* C:\ followed by two names of 130 characters: 264 characters
LongTail == Rep("a", 130) \o <<BackSlash>> \o Rep("b", 130)

\* C:\ and n nested directories d, then the file f
DeepPath(n) == DriveC \o Nested(<<"d">>, n) \o <<"f">>

WellFormedPaths ==
    { DriveC \o Users \o <<BackSlash, "a">>,
      <<"a", BackSlash, "b">>,
      DriveC,
      DeepPath(MAX_RECURSION_DEPTH - 1),
      DeepPath(DeepParts) }

PathInputs ==
    WellFormedPaths \cup
    { DriveC \o Users \o <<BackSlash, "a", "*">>,
      DriveC \o <<"a", "<", "b", ">", "|", "c">>,
      DriveC \o <<"a", "?", BackSlash, "\"", "b">>,
      <<"C", ":", Slash>> \o Users \o <<Slash, "a">>,
      DriveC \o Users \o <<Slash, "a">>,
      <<"a", Slash, "b">>,
      <<"a", Slash, "b", BackSlash, "c">>,
      Share \o <<BackSlash, "d", BackSlash, "f">>,
      LongPrefix \o DriveC \o <<"a">>,
      DriveC \o <<"a", ":", "b">>,
      <<"C", "D", ":", BackSlash, "a">>,
      <<"1", ":", BackSlash, "a">>,
      DriveC \o LongTail,
      LongPrefix \o DriveC \o LongTail,
      <<>>,
      <<"a">> }

\* what exists: everything that was asked about and holds no forbidden
\* character, or nothing
ExistingChoices ==
    { {p \in PathInputs : ForbiddenProblems(p, 1) = <<>>}, {} }

WorkDir == DriveC \o <<"w">>

InitPaths ==
    /\ \E e \in ExistingChoices :
          fs = [cwd |-> WorkDir, existing |-> e, cache |-> <<>>]
    /\ op = "idle"
    /\ arg = <<>>
    /\ res = <<>>

\* the call validate_windows_path_recursive(path)
ValidateBegin ==
    /\ op = "idle"
    /\ \E p \in PathInputs :
        /\ op' = "validating"
        /\ arg' = [path |-> p]
        /\ res' = [path |-> p, depth |-> 0, problems |-> <<>>,
                   examined |-> <<>>]
    /\ UNCHANGED fs

\* a call with depth > MAX_RECURSION_DEPTH: one problem, and every caller
\* returns
ValidateDepthExceeded ==
    /\ op = "validating"
    /\ DepthExceeded(res.depth)
    /\ op' = "validate"
    /\ res' = [valid |-> FALSE,
               problems |-> Append(res.problems, DepthProblem),
               examined |-> res.examined]
    /\ UNCHANGED <<fs, arg>>

\* a call that checks its path_str and calls itself on the parent
ValidateLevelDescend ==
    /\ op = "validating"
    /\ ~DepthExceeded(res.depth)
    /\ Recurses(res.path)
    /\ res' = [path |-> ParentStr(res.path), depth |-> res.depth + 1,
               problems |-> res.problems
                              \o LevelProblems(res.path, res.depth),
               examined |-> Append(res.examined, res.path)]
    /\ UNCHANGED <<fs, op, arg>>

\* a call that checks its path_str and does not recurse: it and every
\* caller return
ValidateLevelLast ==
    /\ op = "validating"
    /\ ~DepthExceeded(res.depth)
    /\ ~Recurses(res.path)
    /\ op' = "validate"
    /\ LET problems == res.problems \o LevelProblems(res.path, res.depth)
       IN res' = [valid |-> Len(problems) = 0, problems |-> problems,
                  examined |-> Append(res.examined, res.path)]
    /\ UNCHANGED <<fs, arg>>

ValidateStep ==
    \/ ValidateDepthExceeded
    \/ ValidateLevelDescend
    \/ ValidateLevelLast

\* the caller takes the result
PathReturn ==
    /\ op \in {"validate", "long_form"}
    /\ op' = "idle"
    /\ arg' = <<>>
    /\ res' = <<>>
    /\ UNCHANGED fs

NextValidate == ValidateBegin \/ ValidateStep \/ PathReturn

\* path validation alone, one call of the recursion at a time
SpecValidate == InitPaths /\ [][NextValidate]_vars

(***************************************************************************)
(* utill_rec.resolve_long_paths_recursive                                  *)
(***************************************************************************)
\* ntpath.splitdrive: the drive or UNC share, and the rest
SplitDrive(s) ==
    LET n == Len(SplitRoot(ToBackSlashes(s)).drive)
    IN [drive |-> Take(s, n), path |-> From(s, n + 1)]

\* c is a separator
IsSep(c) == c = BackSlash \/ c = Slash

\* ntpath.join(a, p)
JoinPath(a, p) ==
    LET ra == SplitDrive(a)
        rp == SplitDrive(p)
        glue(x) == IF x # <<>> /\ ~IsSep(x[Len(x)]) THEN x \o <<BackSlash>>
                   ELSE x
        joined ==
            IF rp.path # <<>> /\ IsSep(rp.path[1])
            THEN [drive |-> IF rp.drive # <<>> \/ ra.drive = <<>>
                            THEN rp.drive ELSE ra.drive,
                  path |-> rp.path]
            ELSE IF rp.drive # <<>> /\ rp.drive # ra.drive
                    /\ UpperStr(rp.drive) # UpperStr(ra.drive)
            THEN [drive |-> rp.drive, path |-> rp.path]
            ELSE [drive |-> IF rp.drive # <<>> THEN rp.drive ELSE ra.drive,
                  path |-> glue(ra.path) \o rp.path]
    IN IF joined.path # <<>> /\ ~IsSep(joined.path[1])
          /\ joined.drive # <<>> /\ joined.drive[Len(joined.drive)] # ":"
       THEN joined.drive \o <<BackSlash>> \o joined.path
       ELSE joined.drive \o joined.path

\* ntpath.isabs
IsAbs(s) ==
    LET t == ToBackSlashes(Take(s, 3)) IN
    \/ StartsWith(t, <<BackSlash>>)
    \/ Len(t) = 3 /\ t[2] = ":" /\ t[3] = BackSlash

\* the while loop of ntpath.normpath over the components from i on, out
\* being the components kept so far
RECURSIVE ResolveDots(_, _, _, _)
ResolveDots(comps, i, out, rooted) ==
    IF i > Len(comps) THEN out
    ELSE LET c == comps[i] IN
         IF c = <<>> \/ c = <<".">>
         THEN ResolveDots(comps, i + 1, out, rooted)
         ELSE IF c = <<".", ".">>
         THEN IF out # <<>> /\ out[Len(out)] # <<".", ".">>
              THEN ResolveDots(comps, i + 1, SubSeq(out, 1, Len(out) - 1),
                               rooted)
              ELSE IF out = <<>> /\ rooted
              THEN ResolveDots(comps, i + 1, out, rooted)
              ELSE ResolveDots(comps, i + 1, Append(out, c), rooted)
         ELSE ResolveDots(comps, i + 1, Append(out, c), rooted)

\* ntpath.normpath
NormPath(s) ==
    LET d == SplitDrive(ToBackSlashes(s))
        rooted == StartsWith(d.path, <<BackSlash>>)
        prefix == IF rooted THEN d.drive \o <<BackSlash>> ELSE d.drive
        comps == ResolveDots(SplitOn(d.path, BackSlash), 1, <<>>, rooted)
    IN IF prefix = <<>> /\ comps = <<>> THEN <<".">>
       ELSE prefix \o JoinWith(comps, BackSlash)

\* os.path.abspath
AbsPath(s) ==
    IF IsAbs(s) THEN NormPath(s) ELSE NormPath(JoinPath(fs.cwd, s))

\* resolve_long_paths_recursive measuring the path itself where the code
\* measures os.path.abspath(path_str)
ResolveByOwnLength(s, prefix) ==
    IF StartsWith(s, prefix) THEN s
    ELSE IF StartsWith(s, <<BackSlash, BackSlash>>)
    THEN IF Len(s) > MaxPathLength /\ ~StartsWith(s, UncLongPrefix)
         THEN UncLongPrefix \o From(s, 3)
         ELSE s
    ELSE IF Len(s) > MaxPathLength /\ ~StartsWith(s, prefix)
    THEN prefix \o AbsPath(s)
    ELSE NormPath(s)

\* the body of resolve_long_paths_recursive
ResolveLongPathsRecursive(s, prefix) ==
    IF StartsWith(s, prefix) THEN s
    ELSE IF StartsWith(s, <<BackSlash, BackSlash>>)
    THEN IF Len(s) > MaxPathLength /\ ~StartsWith(s, UncLongPrefix)
         THEN UncLongPrefix \o From(s, 3)
         ELSE s
    ELSE IF Len(AbsPath(s)) > MaxPathLength /\ ~StartsWith(s, prefix)
    THEN prefix \o AbsPath(s)
    ELSE NormPath(s)

\* resolve_long_paths_recursive behind functools.lru_cache: the value the
\* call returns in the current state
CachedLongForm(s, prefix) ==
    IF <<s, prefix>> \in DOMAIN fs.cache THEN fs.cache[<<s, prefix>>]
    ELSE ResolveLongPathsRecursive(s, prefix)

\* number of results the cache is followed for
MaxCached == 1

\* a detour that leads nowhere: a name of 100 characters and \..\ after it,
\* n times
UpAndDown(n) == Nested(Rep("a", 100) \o <<BackSlash, ".", ".">>, n)

LongFormInputs ==
    { <<"a", BackSlash, "b">>,
      <<"a", Slash, ".", Slash, "b">>,
      DriveC \o Users \o <<BackSlash, "a">>,
      DriveC \o LongTail,
      LongPrefix \o DriveC \o LongTail,
      Share \o <<BackSlash, "d", BackSlash, "f">>,
      Share \o <<BackSlash>> \o LongTail,
      UncLongPrefix \o <<"s", "r", "v", BackSlash, "s", "h", BackSlash>>
          \o LongTail,
      <<Slash, Slash, "?", Slash, "C", ":", Slash>> \o Rep("a", 130)
          \o <<Slash>> \o Rep("b", 130),
      UpAndDown(3) \o <<"b">> }

DevicePrefix == <<BackSlash, BackSlash, ".", BackSlash>>

Prefixes == { LongPrefix, UncLongPrefix, DevicePrefix }

\* a working directory of 258 characters
LongWorkDir == DriveC \o Rep("w", 255)

InitLongForm ==
    /\ \E d \in {WorkDir, LongWorkDir} :
          fs = [cwd |-> d, existing |-> {}, cache |-> <<>>]
    /\ op = "idle"
    /\ arg = <<>>
    /\ res = <<>>

\* the call resolve_long_paths_recursive(path, prefix)
CallToLongForm ==
    /\ op = "idle"
    /\ \E p \in LongFormInputs, prefix \in Prefixes :
        /\ \/ <<p, prefix>> \in DOMAIN fs.cache
           \/ Cardinality(DOMAIN fs.cache) < MaxCached
        /\ op' = "long_form"
        /\ arg' = [path |-> p, prefix |-> prefix]
        /\ res' = CachedLongForm(p, prefix)
        /\ fs' = [fs EXCEPT !.cache =
                     IF <<p, prefix>> \in DOMAIN @ THEN @
                     ELSE @ @@ (<<p, prefix>> :> res')]

NextLongForm == CallToLongForm \/ PathReturn

SpecLongForm == InitLongForm /\ [][NextLongForm]_vars

(***************************************************************************)
(* C13                                                                     *)
(***************************************************************************)
\* s holds one of the forbidden characters
HasForbiddenChar(s) ==
    \E k \in 1..Len(ForbiddenChars) : HasChar(s, ForbiddenChars[k])

\* s holds no ':' or one ':' after a single letter
DriveWellFormed(s) ==
    \/ ~HasChar(s, ":")
    \/ CountChar(s, ":") = 1 /\ FindChar(s, ":", 1) = 2 /\ IsAlpha(<<s[1]>>)

\* the directory names of s number at most n
NestedAtMost(s, n) == Len(ParsePath(s).parts) <= n

\* s meets the rules (a) to (d) of the validation and is not nested deeper
\* than the validation follows a path
WellFormedShort(s) ==
    /\ ~HasForbiddenChar(s)
    /\ ~HasChar(s, Slash)
    /\ DriveWellFormed(s)
    /\ Len(s) <= MaxPathLength
    /\ NestedAtMost(s, MAX_RECURSION_DEPTH)

C13_WitnessForbidden ==
    /\ op = "validate"
    /\ HasForbiddenChar(arg.path)
    /\ ~res.valid
    /\ \E i \in 1..Len(res.problems) : res.problems[i].rule = "forbidden"

(***************************************************************************)
(* C16                                                                     *)
(***************************************************************************)
\* C16 as stated: every validated path string that holds a forward slash
\* gets a forward-slash problem, also when it holds backslashes.
C16_EverySlashIsReported ==
    op = "validate" =>
        \A i \in 1..Len(res.examined) :
            HasChar(res.examined[i], Slash) =>
                \E k \in 1..Len(res.problems) :
                    /\ res.problems[k].rule = "slash"
                    /\ res.problems[k].path = res.examined[i]

(***************************************************************************)
(* C17                                                                     *)
(***************************************************************************)
\* the path and the ancestors the recursion would follow without a bound
RECURSIVE AncestorChain(_)
AncestorChain(s) ==
    IF Recurses(s) THEN <<s>> \o AncestorChain(ParentStr(s)) ELSE <<s>>

\* number of depth-exceeded problems in a problem list
DepthProblems(problems) ==
    Cardinality({k \in 1..Len(problems) : problems[k].rule = "depth"})

\* C17: a validation always ends: while it runs the guard of one of its
\* three steps holds, every call either returns the report or goes one level
\* deeper, and the depth never passes MAX_RECURSION_DEPTH + 1.  It examines
\* the path and at most MAX_RECURSION_DEPTH ancestors, in the order of the
\* chain; when the chain is longer it appends exactly one depth-exceeded
\* problem, as the last one, and reports invalid; otherwise it appends
\* none.
C17_DepthBoundStopsRecursion ==
    /\ [](op = "validating" =>
            /\ res.depth <= MAX_RECURSION_DEPTH + 1
            /\ Len(res.examined) = res.depth
            /\ \/ DepthExceeded(res.depth)
               \/ ~DepthExceeded(res.depth) /\ Recurses(res.path)
               \/ ~DepthExceeded(res.depth) /\ ~Recurses(res.path))
    /\ [][op = "validating" =>
            \/ op' = "validate"
            \/ op' = "validating" /\ res'.depth = res.depth + 1]_vars
    /\ [](op = "validate" =>
            LET chain == AncestorChain(arg.path) IN
            /\ Len(res.examined) <= MAX_RECURSION_DEPTH + 1
            /\ res.examined = SubSeq(chain, 1, Len(res.examined))
            /\ IF Len(chain) > MAX_RECURSION_DEPTH + 1
               THEN /\ DepthProblems(res.problems) = 1
                    /\ res.problems[Len(res.problems)].rule = "depth"
                    /\ Len(res.examined) = MAX_RECURSION_DEPTH + 1
                    /\ ~res.valid
               ELSE /\ DepthProblems(res.problems) = 0
                    /\ res.examined = chain)

\* the path nested DeepParts directories deep was validated and its report
\* ends with the depth-exceeded problem
C17_Witness ==
    /\ op = "validate"
    /\ arg.path = DeepPath(DeepParts)
    /\ Len(AncestorChain(arg.path)) > MAX_RECURSION_DEPTH + 1
    /\ Len(res.examined) = MAX_RECURSION_DEPTH + 1
    /\ DepthProblems(res.problems) = 1

(***************************************************************************)
(* C14                                                                     *)
(***************************************************************************)
\* C14 as stated: converting the result of a conversion again, with the
\* same prefix, returns it unchanged, and no result starts with the prefix
\* twice.
C14_LongFormIsIdempotent ==
    op = "long_form" =>
        /\ CachedLongForm(res, arg.prefix) = res
        /\ ~StartsWith(res, arg.prefix \o arg.prefix)

(***************************************************************************)
(* C18                                                                     *)
(***************************************************************************)
\* s starts with two backslashes
IsUncStyle(s) == StartsWith(s, <<BackSlash, BackSlash>>)

\* C18 as stated: a path that starts with the prefix is returned
\* unchanged; a UNC path gets the UNC long-path prefix if it is longer than
\* 260 characters and is returned as it is otherwise; any other path is
\* returned as prefix + absolute path if it is longer than 260 characters
\* and in normalized form otherwise.
C18_FourCasesByLength ==
    op = "long_form" =>
        LET s == arg.path
            prefix == arg.prefix
        IN IF StartsWith(s, prefix) THEN res = s
           ELSE IF IsUncStyle(s)
           THEN IF Len(s) > MaxPathLength
                THEN \/ res = UncLongPrefix \o From(s, 3)
                     \/ StartsWith(s, UncLongPrefix) /\ res = s
                ELSE res = s
           ELSE IF Len(s) > MaxPathLength
           THEN res = prefix \o AbsPath(s)
           ELSE res = NormPath(s)

\* C18 amended: as above, but a UNC path that already starts with the UNC
\* long-path prefix is returned unchanged, and for a path that is neither
\* prefixed nor UNC the length that is compared with 260 is the length of
\* its absolute form.
C18_FourCasesByAbsoluteLength ==
    op = "long_form" =>
        LET s == arg.path
            prefix == arg.prefix
        IN IF StartsWith(s, prefix) THEN res = s
           ELSE IF IsUncStyle(s)
           THEN IF Len(s) > MaxPathLength /\ ~StartsWith(s, UncLongPrefix)
                THEN res = UncLongPrefix \o From(s, 3)
                ELSE res = s
           ELSE IF Len(NormPath(IF IsAbs(s) THEN s
                                ELSE fs.cwd \o <<BackSlash>> \o s))
                     > MaxPathLength
           THEN /\ StartsWith(res, prefix)
                /\ From(res, Len(prefix) + 1)
                     = NormPath(IF IsAbs(s) THEN s
                                ELSE fs.cwd \o <<BackSlash>> \o s)
           ELSE res = NormPath(s)

\* the short relative path a\b was converted in the long working directory
\* and came back prefixed and absolute
C18_Witness ==
    /\ op = "long_form"
    /\ arg.path = <<"a", BackSlash, "b">>
    /\ arg.prefix = LongPrefix
    /\ fs.cwd = LongWorkDir
    /\ Len(arg.path) <= MaxPathLength
    /\ res = LongPrefix \o LongWorkDir \o <<BackSlash, "a", BackSlash, "b">>

(***************************************************************************)
(* The keys of the two type histograms                                     *)
(***************************************************************************)
\* the key the histograms are to file a file under: its extension in lower
\* case with the dot, the empty string when it has none
ExtensionKey(n) == Lower(SplitExt(fs[n].name))

\* the files below d whose size can be read
ReadableFilesBelow(d) ==
    {n \in RegularFilesBelow(d) : fs[n].statOk /\ fs[n].sizeOk}

\* the files below d in directories at most maxDepth levels down
FilesWithinDepth(d, maxDepth) ==
    {n \in RegularFilesBelow(d) : DepthBelow(fs[n].parent, d) <= maxDepth}

\* keys is a key set of the files of S: each key is the key of a file of S
\* and each file of S whose size can be read has its key in it
KeysOf(keys, S) ==
    /\ \A k \in keys : \E n \in S : k = ExtensionKey(n)
    /\ \A n \in S : fs[n].statOk /\ fs[n].sizeOk => ExtensionKey(n) \in keys

\* C15: the type histogram of a Scan and the one of TypeHistogram both key
\* every file by its lowercased extension with the dot and a file without
\* extension by the empty string; a directory holding a.TXT, b.txt and c
\* gives '.txt' with count 2 and '' with count 1; the two operations give
\* the same key set on the same tree.
C15_HistogramKeys ==
    /\ op = "types" /\ res.ok =>
          KeysOf(DOMAIN res.value, RegularFilesBelow(StartDir))
    /\ op = "scan" /\ fs[StartDir].listErr = "none" =>
          /\ KeysOf(DOMAIN res.types,
                    FilesWithinDepth(StartDir, arg.maxDepth))
          /\ arg.maxDepth = 0 /\ arg.path = <<Root>>
                /\ {Ids.a, Ids.b, Ids.c} \subseteq ReadableFilesBelow(Root) =>
                DOMAIN res.types = {<<".","t","x","t">>, <<>>}
                /\ res.types[<<".","t","x","t">>].count = 2
                /\ res.types[<<>>].count = 1
          /\ WithinDepth(StartDir, arg.maxDepth)
                /\ RegularFilesBelow(StartDir) = ReadableFilesBelow(StartDir) =>
                DOMAIN res.types = DOMAIN AnalyzeWindowsFileTypes(arg.path).value

\* the part of C15 about TypeHistogram alone
C15_TypeHistogramKeys ==
    op = "types" /\ res.ok =>
        KeysOf(DOMAIN res.value, RegularFilesBelow(StartDir))

(***************************************************************************)
(* The depth cap of the scan                                               *)
(***************************************************************************)
\* the real subdirectories of directory d that a listing of d shows
ImmediateDirs(d) ==
    IF fs[d].listErr # "none" THEN {}
    ELSE {n \in DOMAIN fs : fs[n].parent = d /\ fs[n].kind = "dir"}

\* the regular files of directory d that a listing of d shows
ImmediateFiles(d) ==
    IF fs[d].listErr # "none" THEN {}
    ELSE {n \in DOMAIN fs :
             fs[n].parent = d /\ fs[n].kind = "file" /\ fs[n].statOk}

RECURSIVE SumDirs(_, _)
SumDirs(children, i) ==
    IF i > Len(children) THEN 0
    ELSE children[i].dirs + SumDirs(children, i + 1)

\* C19: a scan never makes a result node deeper than maxDepth and never
\* lists a directory deeper than maxDepth; a real subdirectory that is not
\* descended into because of the depth cap adds exactly 1 to its parent's
\* dirCount, adds nothing else and is absent from children.
C19_DepthCapBeforeDescending ==
    /\ op = "scanning" =>
          /\ \A i \in 1..Len(res.stack) :
                /\ res.stack[i].node.depth = i - 1
                /\ res.stack[i].node.depth <= arg.maxDepth
          /\ \A p \in res.visited : Len(p) - Len(arg.path) <= arg.maxDepth
    /\ op = "scan" =>
          \A r \in NodesOf(res) :
             LET d == Last(r.path) IN
             /\ r.depth = Len(r.path) - Len(arg.path)
             /\ r.depth <= arg.maxDepth
             /\ r.dirs = Cardinality(ImmediateDirs(d))
                             + SumDirs(r.children, 1)
             /\ r.depth = arg.maxDepth =>
                   /\ r.children = <<>>
                   /\ r.dirs = Cardinality(ImmediateDirs(d))
                   /\ r.files = Cardinality(ImmediateFiles(d))
                   /\ r.size = SumReadableSize(ImmediateFiles(d))

\* a scan of the root with maxDepth 1 has returned on a tree with
\* System\System: the inner System is counted by the outer one, which has
\* no children, and the root counts Bin, System and the inner System
C19_Witness ==
    /\ op = "scan"
    /\ arg.path = <<Root>>
    /\ arg.maxDepth = 1
    /\ ChainBase + 2 \in DOMAIN fs
    /\ res.dirs = 3
    /\ Len(res.children) = 2
    /\ \E i \in 1..2 :
          /\ res.children[i].path = <<Root, ChainBase + 1>>
          /\ res.children[i].dirs = 1
          /\ res.children[i].children = <<>>

(***************************************************************************)
(* The subtree summary of every node of a scan result                      *)
(***************************************************************************)
RECURSIVE SumSeq(_)
SumSeq(s) == IF s = <<>> THEN 0 ELSE Head(s) + SumSeq(Tail(s))

\* the entry of a type table under key k, zero when the key is absent
TypeEntry(types, k) ==
    IF k \in DOMAIN types THEN types[k] ELSE [count |-> 0, size |-> 0]

\* the files among S that are filed under key k
FiledUnder(S, k) == {n \in S : ExtensionKey(n) = k}

\* the files among S that carry the attribute bit mask
Carrying(S, mask) == {n \in S : HasBit(fs[n].attrs, mask)}

\* node r sums the files of S, its own, and the nodes of its children list
SummarisesWith(r, S) ==
    LET ch == r.children
        Over(F(_)) == SumSeq([i \in 1..Len(ch) |-> F(ch[i])])
        Files(c) == c.files
        Size(c) == c.size
        Hidden(c) == c.attributes.hidden
        System(c) == c.attributes.system
        ReadOnly(c) == c.attributes.readonly
        keys == DOMAIN r.types \cup {ExtensionKey(n) : n \in S}
                   \cup UNION {DOMAIN ch[i].types : i \in 1..Len(ch)}
    IN
    /\ r.files = Cardinality(S) + Over(Files)
    /\ r.size = SumReadableSize(S) + Over(Size)
    /\ \A k \in keys :
          LET Count(c) == TypeEntry(c.types, k).count
              Bytes(c) == TypeEntry(c.types, k).size
          IN /\ TypeEntry(r.types, k).count
                   = Cardinality(FiledUnder(S, k)) + Over(Count)
             /\ TypeEntry(r.types, k).size
                   = SumReadableSize(FiledUnder(S, k)) + Over(Bytes)
    /\ r.attributes.hidden = Cardinality(Carrying(S, 2)) + Over(Hidden)
    /\ r.attributes.system = Cardinality(Carrying(S, 4)) + Over(System)
    /\ r.attributes.readonly = Cardinality(Carrying(S, 1)) + Over(ReadOnly)

\* the children list of node r holds one node for each real subdirectory
\* that was descended into, and nothing else
ChildrenAreDescended(r, maxDepth) ==
    LET descended == IF r.depth < maxDepth
                     THEN {Append(r.path, n) : n \in ImmediateDirs(Last(r.path))}
                     ELSE {}
    IN /\ {r.children[i].path : i \in 1..Len(r.children)} = descended
       /\ Len(r.children) = Cardinality(descended)
       /\ \A i \in 1..Len(r.children) : r.children[i].depth = r.depth + 1

\* C20: in every node of a scan result fileCount, totalBytes, each entry of
\* the extension histogram and each of hidden/system/readonly equal what the
\* files directly in the directory contribute plus the sum of the field over
\* the nodes of children, and children holds exactly one node for each
\* immediate real subdirectory that was descended into.
C20_SubtreeSummary ==
    op = "scan" =>
        \A r \in NodesOf(res) :
            /\ SummarisesWith(r, ImmediateFiles(Last(r.path)))
            /\ ChildrenAreDescended(r, arg.maxDepth)

(***************************************************************************)
(* C21                                                                     *)
(***************************************************************************)
\* C21: get_windows_file_attributes_stats returns a success indicator with
\* the hidden/system/readonly counts, false exactly when the listing of the
\* path passed in failed, so that the result for a failed root differs from
\* the result for a directory that was read and is empty.
C21_AttributeStatsSignalFailure ==
    op = "attrs" =>
        /\ "ok" \in DOMAIN res
        /\ ~CanBeListed(arg.path) =>
               res # AttributeStatsItems(arg.path, <<>>, 1, ZeroAttributeStats)

(***************************************************************************)
(* main.py: the menu loop over the current path                            *)
(***************************************************************************)
\* utils.validate_windows_path: the success flag
ValidateWindowsPath(s) ==
    /\ \A k \in 1..Len(ForbiddenChars) : ~HasChar(s, ForbiddenChars[k])
    /\ ~HasChar(s, Slash)
    /\ HasChar(s, ":") =>
          LET parts == SplitOn(s, ":") IN
          /\ Len(parts) = 2
          /\ Len(parts[1]) = 1
          /\ IsAlpha(parts[1])
    /\ Len(s) <= MaxPathLength
    /\ Exists(s)

\* navigation.list_available_drives over the letters the model uses
DriveLetters == {"C", "D", "Z"}

ListAvailableDrives == {d \in DriveLetters : Exists(<<d, ":", BackSlash>>)}

\* the names a user can type; the entries of a directory are those of them
\* that exist below it
LongName == Rep("x", MaxPathLength - 4)
Desktop == <<"D","e","s","k","t","o","p">>
TextFile == <<"f",".","t","x","t">>
EntryNames == {<<"d">>, Desktop, LongName, TextFile, <<"n","o">>}

\* os.path.join(s, name) for a name that holds no drive and no separator,
\* as the entries of a directory and the names of the special folders do
JoinName(s, name) ==
    IF s = <<>> \/ IsSep(s[Len(s)]) \/ s[Len(s)] = ":" THEN s \o name
    ELSE s \o <<BackSlash>> \o name

\* navigation.move_down
MoveDown(s, target) ==
    LET new_path == JoinName(s, target) IN
    IF ~Exists(new_path) \/ target \notin EntryNames
    THEN [ok |-> FALSE, path |-> s]
    ELSE IF new_path \notin fs.dirs THEN [ok |-> FALSE, path |-> s]
    ELSE [ok |-> TRUE, path |-> new_path]

\* navigation.move_up; the paths of the loop are absolute and hold no '..',
\* so that Path.resolve leaves their parts as they are
MoveUp(s) ==
    LET parent == ParentStr(s)
        resolved == {ParsePath(x) : x \in {parent, s}}
    IN IF Cardinality(resolved) = 1 THEN s ELSE parent

\* navigation.get_windows_special_folders, in the order of the dictionary
SpecialFolders ==
    LET names == << Desktop, <<"D","o","c","u","m","e","n","t","s">>,
                    <<"D","o","w","n","l","o","a","d","s">> >>
    IN [k \in 1..3 |-> JoinName(fs.profile, names[k])]

\* main.handle_windows_navigation: the path it returns
HandleWindowsNavigation(command, inp, s) ==
    CASE command = "2" ->
            IF inp.target # <<>> THEN MoveDown(s, inp.target).path ELSE s
      [] command = "3" -> MoveUp(s)
      [] command = "4" ->
            IF inp.drive # <<>> /\ UpperStr(inp.drive)[1] \in ListAvailableDrives
                 /\ Len(inp.drive) = 1
            THEN UpperStr(inp.drive) \o <<":", BackSlash>> ELSE s
      [] command = "5" ->
            LET folders == SpecialFolders IN
            IF inp.choice \in 1..Len(folders) /\ Exists(folders[inp.choice])
            THEN folders[inp.choice] ELSE s
      [] OTHER -> s

NavigationCommands == {"1", "2", "3", "4", "5", "6"}
OtherCommands == {"7", "8", "9", "10", "11", "12", "13", "x"}

\* RunWindowsCommand without the validation of the current path
RunWindowsCommandWithoutValidation(command, inp, s) ==
    IF command \in NavigationCommands
    THEN [path |-> HandleWindowsNavigation(command, inp, s),
          warned |-> FALSE]
    ELSE [path |-> s, warned |-> FALSE]

\* main.run_windows_command: the path it returns and whether it printed the
\* warning about an invalid current path
RunWindowsCommand(command, inp, s) ==
    IF command \notin {"0", "13"} /\ ~ValidateWindowsPath(s)
    THEN [path |-> s, warned |-> TRUE]
    ELSE IF command \in NavigationCommands
    THEN [path |-> HandleWindowsNavigation(command, inp, s),
          warned |-> FALSE]
    ELSE [path |-> s, warned |-> FALSE]

\* what the user types after a command
NoInput == [target |-> <<>>, drive |-> <<>>, choice |-> 0]

InputsOf(command) ==
    CASE command = "2" -> {[NoInput EXCEPT !.target = t] :
                              t \in EntryNames \cup {<<>>}}
      [] command = "4" -> {[NoInput EXCEPT !.drive = d] :
                              d \in {<<"c">>, <<"D">>, <<"Z">>, <<>>}}
      [] command = "5" -> {[NoInput EXCEPT !.choice = c] : c \in 0..3}
      [] OTHER -> {NoInput}

\* the directories of the machine: C:\, C:\d, C:\d\Desktop and C:\d\xx..x,
\* whose path is one character longer than MaxPathLength, with or without a
\* drive D:
MenuDirs(withD) ==
    {DriveC, DriveC \o <<"d">>,
     DriveC \o <<"d", BackSlash>> \o Desktop,
     DriveC \o <<"d", BackSlash>> \o LongName}
    \cup (IF withD THEN {<<"D", ":", BackSlash>>} ELSE {})

\* the spellings under which the program asks for them: USERPROFILE may be
\* written with forward slashes
Spellings(dirs) ==
    dirs \cup {<<"C", ":", Slash, "d", BackSlash>> \o Desktop}

ProfileChoices == {DriveC \o <<"d">>, <<"C", ":", Slash, "d">>,
                   <<"D", ":", BackSlash>>}

\* main() up to the loop: current_path = os.getcwd()
InitMenu ==
    /\ \E withD \in BOOLEAN, profile \in ProfileChoices,
          cwd \in MenuDirs(FALSE) :
          /\ fs = [cwd |-> cwd, profile |-> profile,
                   dirs |-> Spellings(MenuDirs(withD)),
                   existing |-> Spellings(MenuDirs(withD))
                       \cup {DriveC \o <<"d", BackSlash>> \o TextFile},
                   cache |-> <<>>]
          /\ res = cwd
    /\ op = "menu"
    /\ arg = <<>>

\* one turn of the loop of main() with a command other than 0
MainCommand ==
    /\ op = "menu"
    /\ \E command \in NavigationCommands \cup OtherCommands :
       \E inp \in InputsOf(command) :
          LET r == RunWindowsCommand(command, inp, res) IN
          /\ arg' = [command |-> command, warned |-> r.warned]
          /\ res' = r.path
    /\ UNCHANGED <<fs, op>>

\* command 0: the loop ends
MainExit ==
    /\ op = "menu"
    /\ op' = "exited"
    /\ arg' = [command |-> "0", warned |-> FALSE]
    /\ UNCHANGED <<fs, res>>

NextMenu == MainCommand \/ MainExit

SpecMenu == InitMenu /\ [][NextMenu]_vars

(***************************************************************************)
(* C22                                                                     *)
(***************************************************************************)
\* C22: whenever the validation of the current path fails, a command leaves
\* the current path as it is, the navigation commands 2, 3, 4 and 5
\* included; with the filesystem unchanged, a current path that is invalid
\* stays the same invalid path in every later state.
C22_InvalidPathIsKept ==
    /\ [][~ValidateWindowsPath(res) =>
             /\ res' = res
             /\ ~ValidateWindowsPath(res')
             /\ op' = "menu" /\ arg'.command \notin {"13"} => arg'.warned]_vars
    /\ [](\A c \in NavigationCommands \cup OtherCommands :
            \A inp \in InputsOf(c) :
               ~ValidateWindowsPath(res) =>
                   RunWindowsCommand(c, inp, res).path = res)

\* the current path is C:\d\xx..x, too long to be valid, and the command
\* to go to the parent was answered with the warning
C22_Witness ==
    /\ op = "menu"
    /\ res = DriveC \o <<"d", BackSlash>> \o LongName
    /\ Len(res) > MaxPathLength
    /\ arg # <<>>
    /\ arg.command = "3"
    /\ arg.warned

(***************************************************************************)
(* The traversals of search.py and analysis.py, one entry at a time        *)
(***************************************************************************)
\* search.find_files_windows, find_by_windows_extension,
\* find_large_files_windows, find_windows_system_files
SearchOperations ==
    {"find_files", "find_by_extension", "find_large", "find_system"}

\* analysis.count_files, count_bytes, analyze_windows_file_types,
\* get_windows_file_attributes_stats
AnalysisOperations == {"count_files", "count_bytes", "types", "attrs"}

\* a call of one of the traversals on path p: list_directory and the loop
\* position
WalkFrame(p) == [path |-> p, items |-> ListDirectory(p).items, i |-> 1]

WalkTop == res.stack[Len(res.stack)]

WalkAtEntry == op = "walking" /\ WalkTop.i <= Len(WalkTop.items)

WalkEntry == WalkTop.items[WalkTop.i]

WalkEntryPath == Append(WalkTop.path, WalkEntry.id)

\* the entry is passed over: the functions of analysis.py skip a symbolic
\* link, and the attribute statistics an entry whose os.stat raises
WalkSkips ==
    /\ arg.operation \in AnalysisOperations
    /\ \/ IsLink(WalkEntryPath)
       \/ arg.operation = "attrs" /\ ~StatOk(WalkEntryPath)

\* the stack with the loop of the running call moved to the next entry
WalkAdvance == [res.stack EXCEPT ![Len(res.stack)].i = @ + 1]

\* one of the eight operations is called on a start path
WalkBegin ==
    /\ op = "idle"
    /\ \E o \in SearchOperations \cup AnalysisOperations, p \in StartPaths :
        /\ op' = "walking"
        /\ arg' = [operation |-> o, path |-> p]
        /\ res' = [stack |-> <<WalkFrame(p)>>, files |-> 0]
    /\ UNCHANGED fs

WalkEntrySkipped ==
    /\ WalkAtEntry
    /\ WalkSkips
    /\ res' = [res EXCEPT !.stack = WalkAdvance]
    /\ UNCHANGED <<fs, op, arg>>

\* an entry typed 'file' is handled
WalkEntryFile ==
    /\ WalkAtEntry
    /\ ~WalkSkips
    /\ WalkEntry.type = "file"
    /\ res' = [stack |-> WalkAdvance, files |-> res.files + 1]
    /\ UNCHANGED <<fs, op, arg>>

\* WalkLeaveChild that leaves the caller's loop at the same entry
WalkLeaveChildWithoutAdvance ==
    /\ op = "walking"
    /\ WalkTop.i > Len(WalkTop.items)
    /\ Len(res.stack) > 1
    /\ res' = [res EXCEPT !.stack = SubSeq(res.stack, 1, Len(res.stack) - 1)]
    /\ UNCHANGED <<fs, op, arg>>

\* an entry typed 'dir': the operation calls itself on it
WalkEntryDir ==
    /\ WalkAtEntry
    /\ ~WalkSkips
    /\ WalkEntry.type = "dir"
    /\ res' = [res EXCEPT !.stack = Append(@, WalkFrame(WalkEntryPath))]
    /\ UNCHANGED <<fs, op, arg>>

\* the loop of a nested call is over: it returns to the loop of its caller
WalkLeaveChild ==
    /\ op = "walking"
    /\ WalkTop.i > Len(WalkTop.items)
    /\ Len(res.stack) > 1
    /\ LET k == Len(res.stack) - 1 IN
       res' = [res EXCEPT !.stack =
                  [SubSeq(res.stack, 1, k) EXCEPT ![k].i = @ + 1]]
    /\ UNCHANGED <<fs, op, arg>>

\* the loop of the first call is over: the operation returns
WalkFinish ==
    /\ op = "walking"
    /\ WalkTop.i > Len(WalkTop.items)
    /\ Len(res.stack) = 1
    /\ op' = "walked"
    /\ res' = [files |-> res.files]
    /\ UNCHANGED <<fs, arg>>

WalkReturn ==
    /\ op = "walked"
    /\ op' = "idle"
    /\ arg' = <<>>
    /\ res' = <<>>
    /\ UNCHANGED fs

WalkStep ==
    \/ WalkEntrySkipped
    \/ WalkEntryFile
    \/ WalkEntryDir
    \/ WalkLeaveChild
    \/ WalkFinish

NextWalk ==
    \/ WalkBegin
    \/ WalkStep
    \/ WalkReturn

\* the trees of the traversals: every file readable, with and without a
\* symbolic link, with and without the nested System directories
InitWalk ==
    /\ \E par \in {q \in TreeParams :
                       /\ q.sizes = <<0, 2 * MegaByte, 7>>
                       /\ q.unread = "none"
                       /\ q.binErr = "none"
                       /\ q.chain \in {0, 2}
                       /\ q.link \in {"absent", "root", "parent", "broken"}} :
           fs = MakeTree(par)
    /\ op = "idle"
    /\ arg = <<>>
    /\ res = <<>>

SpecWalk == InitWalk /\ [][NextWalk]_vars

(***************************************************************************)
(* C23                                                                     *)
(***************************************************************************)
\* the number of directory levels of the tree
TreeDepth ==
    LET depths == {Len(DirectPath(n)) : n \in DOMAIN fs} IN
    CHOOSE d \in depths : \A e \in depths : e <= d

\* the loop positions of the calls in progress, outermost first
WalkPosition(stack) == [k \in 1..Len(stack) |-> stack[k].i]

\* position a comes before position b in the order of the traversal
PositionBefore(a, b) ==
    \E j \in 1..Len(b) :
        /\ j <= Len(a) + 1
        /\ \A m \in 1..(j - 1) : a[m] = b[m]
        /\ j > Len(a) \/ a[j] < b[j]

\* C23: each of the four searches and of count_files, count_bytes,
\* analyze_windows_file_types and get_windows_file_attributes_stats, once
\* called, returns, on every tree and also on one in which a directory
\* entry is a symbolic link to an ancestor: a running call can always take
\* a step, every step moves the traversal forward, and the positions are
\* bounded, the operations of analysis.py nesting no deeper than the tree
\* and the searches no deeper than the operating system resolves links.
C23_TraversalsTerminate ==
    /\ [](op = "walking" =>
            /\ \/ WalkAtEntry /\ WalkSkips
               \/ WalkAtEntry /\ ~WalkSkips /\ WalkEntry.type \in {"file", "dir"}
               \/ WalkTop.i > Len(WalkTop.items)
            /\ arg.operation \in AnalysisOperations =>
                  Len(res.stack) <= TreeDepth
            /\ Len(res.stack) <= TreeDepth * (MaxLinkHops + 1)
            /\ \A k \in 1..Len(res.stack) :
                  /\ res.stack[k].i \in 1..(Len(res.stack[k].items) + 1)
                  /\ Len(res.stack[k].items) < Cardinality(DOMAIN fs))
    /\ [][op = "walking" =>
             \/ op' = "walked"
             \/ /\ op' = "walking"
                /\ PositionBefore(WalkPosition(res.stack),
                                  WalkPosition(res'.stack))]_vars

\* a pattern search has returned on a tree where Bin\lnk points back to the
\* root: it went through the link and handled more entries than the tree
\* has files
C23_Witness ==
    /\ op = "walked"
    /\ arg.operation = "find_files"
    /\ arg.path = <<Root>>
    /\ LinkNode \in DOMAIN fs
    /\ fs[LinkNode].target = Root
    /\ res.files > Cardinality({n \in DOMAIN fs : fs[n].kind = "file"})

(***************************************************************************)
(* The long form while the working directory of the process changes        *)
(***************************************************************************)
\* os.chdir by the process that uses the module, between two calls
ChangeWorkingDirectory ==
    /\ op = "idle"
    /\ \E d \in {WorkDir, LongWorkDir} \ {fs.cwd} :
          fs' = [fs EXCEPT !.cwd = d]
    /\ UNCHANGED <<op, arg, res>>

NextLongFormMoving ==
    \/ CallToLongForm
    \/ PathReturn
    \/ ChangeWorkingDirectory

SpecLongFormMoving == InitLongForm /\ [][NextLongFormMoving]_vars

(***************************************************************************)
(* C24                                                                     *)
(***************************************************************************)
\* C24: after any earlier calls and changes of the working directory a call
\* of resolve_long_paths_recursive returns what an evaluation without the
\* cache returns in the current state: the cache never hands out a result
\* computed under another working directory.
C24_CacheIsTransparent ==
    op = "long_form" =>
        res = ResolveLongPathsRecursive(arg.path, arg.prefix)
====
